---- MODULE Spec2Model ----
(***************************************************************************)
(* Context-Forge: the incremental code-symbol index (ASTIndexer over the   *)
(* code_symbols and file_index tables of StateStorage) and the debouncing  *)
(* FileWatcher that drives it.                                             *)
(*                                                                         *)
(* Text is modelled at token level.  A line is a sequence of tokens        *)
(* [k, v]: k = "w" a maximal \w+ run, k = "ws" a maximal whitespace run,   *)
(* k = "p" one punctuation character, k = "s" a quoted string literal with *)
(* inner text v.  Tokens are atomic: a regular expression of the source is *)
(* matched token by token, so a keyword is never found inside a longer     *)
(* word and a string literal holds no brace, colon or quote.               *)
(* A file name is a sequence of pieces, "." being a piece of its own       *)
(* ("main.ts" is <<"main", ".", "ts">>); a path is a sequence of names.    *)
(***************************************************************************)
EXTENDS Integers, Sequences, FiniteSets, TLC

(***************************************************************************)
(* Bounds of the model.                                                    *)
(***************************************************************************)
MaxNow == 1
MaxEvents == 2
MaxBurst == 2
MaxDays == 35

(***************************************************************************)
(* Tokens and the contents a file can have.                                *)
(***************************************************************************)
W(s) == [k |-> "w", v |-> s]
P(s) == [k |-> "p", v |-> s]
S(s) == [k |-> "s", v |-> s]
Sp == [k |-> "ws", v |-> " "]

\* export function v1() {}
LineV1 == <<W("export"), Sp, W("function"), Sp, W("v1"), P("("), P(")"), Sp, P("{"), P("}")>>
\* export function v2() {}
LineV2 == <<W("export"), Sp, W("function"), Sp, W("v2"), P("("), P(")"), Sp, P("{"), P("}")>>
\* const x = function() {}
LineFx == <<W("const"), Sp, W("x"), Sp, P("="), Sp, W("function"), P("("), P(")"), Sp, P("{"), P("}")>>

\* import { a } from "./a"
LineImportA ==
    <<W("import"), Sp, P("{"), Sp, W("a"), Sp, P("}"), Sp, W("from"), Sp, S("./a")>>
\* const b = require("./b")
LineRequireB ==
    <<W("const"), Sp, W("b"), Sp, P("="), Sp, W("require"), P("("), S("./b"), P(")")>>
\* import { c } from "./a"
LineImportC ==
    <<W("import"), Sp, P("{"), Sp, W("c"), Sp, P("}"), Sp, W("from"), Sp, S("./a")>>

\* } function g() {
LineCloseOpen ==
    <<P("}"), Sp, W("function"), Sp, W("g"), P("("), P(")"), Sp, P("{")>>
\* }
LineClose == <<P("}")>>

\* The contents a file can have, by key.  Text[k] is what content.split("\n")
\* yields for it: a non-empty sequence of lines.
ContentKeys == {"v1", "v2", "fx"}
\* Contents with import lines: "im" names "./b" first and "./a" twice,
\* "mi" names the two targets in the other order
ImportKeys == {"im", "mi"}
\* A content whose first line closes a block before it opens the block of g
BlockKeys == {"cb"}
AllKeys == ContentKeys \cup ImportKeys \cup BlockKeys
Text ==
    [k \in AllKeys |->
        CASE k = "v1" -> <<LineV1>>
          [] k = "v2" -> <<LineV2>>
          [] k = "fx" -> <<LineFx>>
          [] k = "im" -> <<LineRequireB, LineImportA, LineImportC, LineV1>>
          [] k = "mi" -> <<LineImportA, LineRequireB, LineV1>>
          [] k = "cb" -> <<LineCloseOpen, LineClose>>]
Absent == "absent"

(***************************************************************************)
(* Regular-expression matching on a token line.  A matcher XAt(line, s)    *)
(* tries the expression at start token s and yields the matched range      *)
(* from..to (match[0]) and the captured tokens (match[1]).                 *)
(***************************************************************************)
NoMatch == [ok |-> FALSE, from |-> 0, to |-> 0, name |-> <<>>]
Match(s, e, n) == [ok |-> TRUE, from |-> s, to |-> e, name |-> n]

Tok(line, i) == IF i >= 1 /\ i <= Len(line) THEN line[i] ELSE [k |-> "eol", v |-> ""]
IsWord(line, i) == Tok(line, i).k = "w"
IsKw(line, i, s) == Tok(line, i) = W(s)
IsPunct(line, i, s) == Tok(line, i) = P(s)
IsWs(line, i) == Tok(line, i).k = "ws"
\* \s* starting at token i: the position after it
SkipWs(line, i) == IF IsWs(line, i) THEN i + 1 ELSE i
\* (?:kw\s+)? starting at token i: the position after it
OptKwWs(line, i, kw) == IF IsKw(line, i, kw) /\ IsWs(line, i + 1) THEN i + 2 ELSE i
\* (?:async\s*)? starting at token i: the position after it
OptAsync(line, i) == IF IsKw(line, i, "async") THEN SkipWs(line, i + 1) ELSE i
Values(line, a, b) == [i \in 1..(b - a + 1) |-> line[a + i - 1].v]

\* /(?:export\s+)?kw\s+(\w+)/ for kw = class, interface
KwNameAt(line, s, kw) ==
    LET a == OptKwWs(line, s, "export")
    IN  IF IsKw(line, a, kw) /\ IsWs(line, a + 1) /\ IsWord(line, a + 2)
        THEN Match(s, a + 2, <<line[a + 2].v>>)
        ELSE NoMatch

ClassAt(line, s) == KwNameAt(line, s, "class")
InterfaceAt(line, s) == KwNameAt(line, s, "interface")

\* /(?:export\s+)?(?:async\s+)?function\s+(\w+)/
FunctionAt(line, s) ==
    LET a == OptKwWs(line, OptKwWs(line, s, "export"), "async")
    IN  IF IsKw(line, a, "function") /\ IsWs(line, a + 1) /\ IsWord(line, a + 2)
        THEN Match(s, a + 2, <<line[a + 2].v>>)
        ELSE NoMatch

\* The common head /(?:export\s+)?(const|let|var)\s+(\w+)\s*=/ : the index of "=", or 0
AssignHead(line, s, kws) ==
    LET a == OptKwWs(line, s, "export")
        c == SkipWs(line, a + 3)
    IN  IF /\ \E kw \in kws : IsKw(line, a, kw)
           /\ IsWs(line, a + 1) /\ IsWord(line, a + 2) /\ IsPunct(line, c, "=")
        THEN c
        ELSE 0
AssignName(line, s) == <<line[OptKwWs(line, s, "export") + 2].v>>

\* /(?:export\s+)?const\s+(\w+)\s*=\s*(?:async\s*)?\(/
ConstArrowAt(line, s) ==
    LET c == AssignHead(line, s, {"const"})
        e == OptAsync(line, SkipWs(line, c + 1))
    IN  IF c # 0 /\ IsPunct(line, e, "(")
        THEN Match(s, e, AssignName(line, s))
        ELSE NoMatch

\* /(?:export\s+)?const\s+(\w+)\s*=\s*(?:async\s*)?function/
ConstFunctionAt(line, s) ==
    LET c == AssignHead(line, s, {"const"})
        e == OptAsync(line, SkipWs(line, c + 1))
    IN  IF c # 0 /\ IsKw(line, e, "function")
        THEN Match(s, e, AssignName(line, s))
        ELSE NoMatch

\* The lookahead \s*(?:async\s*)?\(|function of the variable rule, tried right
\* after "=" at token c: the second alternative has no \s* before it.
VariableLookahead(line, c) ==
    \/ IsPunct(line, OptAsync(line, SkipWs(line, c + 1)), "(")
    \/ IsKw(line, c + 1, "function")

\* /(?:export\s+)?(?:const|let|var)\s+(\w+)\s*=(?!\s*(?:async\s*)?\(|function)/
VariableAt(line, s) ==
    LET c == AssignHead(line, s, {"const", "let", "var"})
    IN  IF c # 0 /\ ~VariableLookahead(line, c)
        THEN Match(s, c, AssignName(line, s))
        ELSE NoMatch

\* /export\s+\{\s*([^}]+)\s*\}/ : [^}]+ runs to the first "}" and needs one
\* character, which \s* gives back when nothing else is there.
ExportListAt(line, s) ==
    LET b == s + 2
        closers == {r \in (b + 1)..Len(line) : IsPunct(line, r, "}")}
    IN  IF /\ IsKw(line, s, "export") /\ IsWs(line, s + 1) /\ IsPunct(line, b, "{")
           /\ closers # {}
        THEN LET r == CHOOSE x \in closers : \A y \in closers : x <= y
                 c == IF SkipWs(line, b + 1) <= r - 1 THEN SkipWs(line, b + 1) ELSE b + 1
             IN  IF c <= r - 1 THEN Match(s, r, Values(line, c, r - 1)) ELSE NoMatch
        ELSE NoMatch

\* /export\s+default\s+(\w+)/
ExportDefaultAt(line, s) ==
    IF /\ IsKw(line, s, "export") /\ IsWs(line, s + 1) /\ IsKw(line, s + 2, "default")
       /\ IsWs(line, s + 3) /\ IsWord(line, s + 4)
    THEN Match(s, s + 4, <<line[s + 4].v>>)
    ELSE NoMatch

\* /(?:export\s+)?type\s+(\w+)\s*=/
TypeAt(line, s) ==
    LET a == OptKwWs(line, s, "export")
        c == SkipWs(line, a + 3)
    IN  IF /\ IsKw(line, a, "type") /\ IsWs(line, a + 1) /\ IsWord(line, a + 2)
           /\ IsPunct(line, c, "=")
        THEN Match(s, c, <<line[a + 2].v>>)
        ELSE NoMatch

\* /^class\s+(\w+)/
PyClassAt(line, s) ==
    IF s = 1 /\ IsKw(line, 1, "class") /\ IsWs(line, 2) /\ IsWord(line, 3)
    THEN Match(1, 3, <<line[3].v>>)
    ELSE NoMatch

\* /^(?:async\s+)?def\s+(\w+)/
PyDefAt(line, s) ==
    LET a == OptKwWs(line, 1, "async")
    IN  IF s = 1 /\ IsKw(line, a, "def") /\ IsWs(line, a + 1) /\ IsWord(line, a + 2)
        THEN Match(1, a + 2, <<line[a + 2].v>>)
        ELSE NoMatch

\* /^(\w+)\s*=\s*(?!def|class)/ : the lookahead fails only when def or class
\* follows "=" directly, since \s* gives its whitespace back otherwise.
PyVariableAt(line, s) ==
    LET c == SkipWs(line, 2)
    IN  IF /\ s = 1 /\ IsWord(line, 1) /\ IsPunct(line, c, "=")
           /\ ~(IsKw(line, c + 1, "def") \/ IsKw(line, c + 1, "class"))
        THEN Match(1, SkipWs(line, c + 1) - 1, <<line[1].v>>)
        ELSE NoMatch

\* line.match(regex): the leftmost start at which the expression matches
Search(At(_, _), line) ==
    LET starts == {s \in 1..Len(line) : At(line, s).ok}
    IN  IF starts = {} THEN NoMatch
        ELSE At(line, CHOOSE s \in starts : \A t \in starts : s <= t)

\* match[0].trim()
TrimFrom(line, a, b) == IF a <= b /\ IsWs(line, a) THEN a + 1 ELSE a
TrimTo(line, a, b) == IF a <= b /\ IsWs(line, b) THEN b - 1 ELSE b
Signature(line, m) ==
    Values(line, TrimFrom(line, m.from, m.to), TrimTo(line, TrimFrom(line, m.from, m.to), m.to))

(***************************************************************************)
(* ASTIndexer: languages, pattern rules, block ends, imports.              *)
(***************************************************************************)
Ext(s) == <<".", s>>
NoLanguage == "none"

\* path.extname of a name: from its last "." on, empty when there is none
\* or when the only one leads the name
extname(name) ==
    LET dots == {i \in 1..Len(name) : name[i] = "."}
    IN  IF dots = {} THEN <<>>
        ELSE LET d == CHOOSE i \in dots : \A j \in dots : j <= i
             IN  IF d = 1 THEN <<>> ELSE SubSeq(name, d, Len(name))

SUPPORTED_EXTENSIONS(ext) ==
    CASE ext = Ext("js") -> "javascript"
      [] ext = Ext("jsx") -> "javascript"
      [] ext = Ext("ts") -> "typescript"
      [] ext = Ext("tsx") -> "typescript"
      [] ext = Ext("py") -> "python"
      [] OTHER -> NoLanguage

IGNORE_DIRS ==
    { <<"node_modules">>, <<".", "git">>, <<"dist">>, <<"build">>, <<".", "next">>,
      <<"__pycache__">>, <<".", "context-forge">>, <<"coverage">>, <<".", "vscode">>,
      <<".", "idea">> }

IGNORE_FILES ==
    { <<"package-lock", ".", "json">>, <<"yarn", ".", "lock">>, <<"pnpm-lock", ".", "yaml">> }

jsPatterns ==
    << [rule |-> "class", type |-> "class"],
       [rule |-> "function", type |-> "function"],
       [rule |-> "constArrow", type |-> "function"],
       [rule |-> "constFunction", type |-> "function"],
       [rule |-> "variable", type |-> "variable"],
       [rule |-> "exportList", type |-> "export"],
       [rule |-> "exportDefault", type |-> "export"] >>

tsPatterns ==
    jsPatterns \o << [rule |-> "interface", type |-> "interface"],
                     [rule |-> "type", type |-> "type"] >>

pyPatterns ==
    << [rule |-> "pyClass", type |-> "class"],
       [rule |-> "pyDef", type |-> "function"],
       [rule |-> "pyVariable", type |-> "variable"] >>

getPatternsForLanguage(language) ==
    CASE language = "javascript" -> jsPatterns
      [] language = "typescript" -> tsPatterns
      [] language = "python" -> pyPatterns
      [] OTHER -> jsPatterns

\* line.match(pattern.regex)
RuleMatch(rule, line) ==
    CASE rule = "class" -> Search(ClassAt, line)
      [] rule = "function" -> Search(FunctionAt, line)
      [] rule = "constArrow" -> Search(ConstArrowAt, line)
      [] rule = "constFunction" -> Search(ConstFunctionAt, line)
      [] rule = "variable" -> Search(VariableAt, line)
      [] rule = "exportList" -> Search(ExportListAt, line)
      [] rule = "exportDefault" -> Search(ExportDefaultAt, line)
      [] rule = "interface" -> Search(InterfaceAt, line)
      [] rule = "type" -> Search(TypeAt, line)
      [] rule = "pyClass" -> Search(PyClassAt, line)
      [] rule = "pyDef" -> Search(PyDefAt, line)
      [] rule = "pyVariable" -> Search(PyVariableAt, line)

Min(a, b) == IF a <= b THEN a ELSE b

\* The characters findBlockEnd counts on one line
Opens(line) == Cardinality({i \in 1..Len(line) : IsPunct(line, i, "{") \/ IsPunct(line, i, ":")})
Closes(line) == Cardinality({i \in 1..Len(line) : IsPunct(line, i, "}")})

RECURSIVE BraceCount(_, _, _)
\* braceCount after the lines from..to
BraceCount(lines, from, to) ==
    IF to < from THEN 0
    ELSE BraceCount(lines, from, to - 1) + Opens(lines[to]) - Closes(lines[to])

\* findBlockEnd(lines, startIndex) with start = startIndex + 1, the 1-based
\* line of the match; the result is a 1-based line number as in the source
findBlockEnd(lines, start) ==
    LET ends == {i \in start..Len(lines) :
                    /\ \E j \in start..i : Opens(lines[j]) > 0
                    /\ BraceCount(lines, start, i) = 0}
    IN  IF ends # {} THEN CHOOSE i \in ends : \A j \in ends : i <= j
        ELSE Min(start - 1 + 10, Len(lines))

RECURSIVE LineMatches(_, _, _, _)
\* The inner loop of parseWithRegex over the patterns k..end for line i
LineMatches(lines, i, patterns, k) ==
    IF k > Len(patterns) THEN <<>>
    ELSE LET m == RuleMatch(patterns[k].rule, lines[i])
             rest == LineMatches(lines, i, patterns, k + 1)
         IN  IF m.ok /\ m.name # <<>>
             THEN << [name |-> m.name, type |-> patterns[k].type, startLine |-> i,
                      endLine |-> findBlockEnd(lines, i),
                      signature |-> Signature(lines[i], m)] >> \o rest
             ELSE rest

RECURSIVE ParseFrom(_, _, _)
ParseFrom(lines, patterns, i) ==
    IF i > Len(lines) THEN <<>>
    ELSE LineMatches(lines, i, patterns, 1) \o ParseFrom(lines, patterns, i + 1)

parseWithRegex(content, language) ==
    ParseFrom(content, getPatternsForLanguage(language), 1)

\* A string literal that /['"]([^'"]+)['"]/ matches
IsTarget(line, i) == Tok(line, i).k = "s" /\ Tok(line, i).v # ""

\* /import\s+.*\s+from\s+['"]([^'"]+)['"]/ : .* is greedy, the last "from" wins
ImportFromTargets(line) ==
    LET hits == {k \in 1..Len(line) :
                    /\ IsWs(line, k) /\ IsKw(line, k + 1, "from") /\ IsWs(line, k + 2)
                    /\ IsTarget(line, k + 3)
                    /\ \E i \in 1..(k - 2) : IsKw(line, i, "import") /\ IsWs(line, i + 1)}
    IN  IF hits = {} THEN <<>>
        ELSE << <<line[(CHOOSE k \in hits : \A h \in hits : h <= k) + 3].v>> >>

\* /require\s*\(\s*['"]([^'"]+)['"]\s*\)/
RequireAt(line, s) ==
    LET a == SkipWs(line, s + 1)
        b == SkipWs(line, a + 1)
    IN  /\ IsKw(line, s, "require") /\ IsPunct(line, a, "(") /\ IsTarget(line, b)
        /\ IsPunct(line, SkipWs(line, b + 1), ")")
RequireTargets(line) ==
    LET starts == {s \in 1..Len(line) : RequireAt(line, s)}
    IN  IF starts = {} THEN <<>>
        ELSE LET s == CHOOSE x \in starts : \A y \in starts : x <= y
             IN  << <<line[SkipWs(line, SkipWs(line, s + 1) + 1)].v>> >>

\* The end of the \S+ run that starts at token 3, or 2 when there is none
NonSpaceEnd(line) ==
    LET stops == {i \in 3..(Len(line) + 1) : i = Len(line) + 1 \/ IsWs(line, i)}
    IN  (CHOOSE i \in stops : \A j \in stops : i <= j) - 1

\* /^from\s+(\S+)\s+import/ , else /^import\s+(\S+)/
PyImportTargets(line) ==
    LET j == NonSpaceEnd(line)
    IN  IF /\ IsKw(line, 1, "from") /\ IsWs(line, 2) /\ j >= 3
           /\ IsWs(line, j + 1) /\ IsKw(line, j + 2, "import")
        THEN << Values(line, 3, j) >>
        ELSE IF IsKw(line, 1, "import") /\ IsWs(line, 2) /\ j >= 3
             THEN << Values(line, 3, j) >>
             ELSE <<>>

RECURSIVE ImportsFrom(_, _, _)
ImportsFrom(lines, language, i) ==
    IF i > Len(lines) THEN <<>>
    ELSE (IF language = "python" THEN PyImportTargets(lines[i])
          ELSE ImportFromTargets(lines[i]) \o RequireTargets(lines[i]))
         \o ImportsFrom(lines, language, i + 1)

RECURSIVE Dedup(_)
\* [...new Set(imports)]: first occurrences, in order
Dedup(seq) ==
    IF seq = <<>> THEN <<>>
    ELSE LET front == Dedup(SubSeq(seq, 1, Len(seq) - 1))
             x == seq[Len(seq)]
         IN  IF \E i \in 1..Len(front) : front[i] = x THEN front ELSE Append(front, x)

\* An extractImports that returns the targets as collected
extractImportsAsCollected(content, language) == ImportsFrom(content, language, 1)

\* [...new Set(imports)] of the targets collected line by line
extractImports(content, language) == Dedup(ImportsFrom(content, language, 1))

(***************************************************************************)
(* Paths.  A file path is the project root followed by names.              *)
(***************************************************************************)
ProjectRoot == << <<"proj">> >>
join(dir, name) == Append(dir, name)
\* path.relative(this.projectRoot, filePath) for a path under the root
relative(filePath) == SubSeq(filePath, Len(ProjectRoot) + 1, Len(filePath))
basename(filePath) == filePath[Len(filePath)]
LanguageOf(filePath) == SUPPORTED_EXTENSIONS(extname(basename(filePath)))

\* `${relativePath}:${match.name}:${match.startLine}`
SymbolId(relativePath, name, startLine) == <<relativePath, name, startLine>>

\* The CodeSymbol records extractSymbols builds from the matches and imports
BuildSymbols(matches, imports, relativePath) ==
    [i \in 1..Len(matches) |->
        [id |-> SymbolId(relativePath, matches[i].name, matches[i].startLine),
         name |-> matches[i].name,
         type |-> matches[i].type,
         filePath |-> relativePath,
         startLine |-> matches[i].startLine,
         endLine |-> matches[i].endLine,
         signature |-> matches[i].signature,
         dependencies |-> imports,
         dependents |-> <<>>]]

extractSymbols(content, filePath, language) ==
    BuildSymbols(parseWithRegex(content, language), extractImports(content, language),
                 relative(filePath))

(***************************************************************************)
(* The project tree.  Directories and the symbolic link are fixed; a file  *)
(* is on disk with some content or absent.                                 *)
(***************************************************************************)
MainTs == join(ProjectRoot, <<"main", ".", "ts">>)
SrcDir == join(ProjectRoot, <<"src">>)
AppJs == join(SrcDir, <<"app", ".", "js">>)
NodeModulesDir == join(ProjectRoot, <<"node_modules">>)
PkgJs == join(NodeModulesDir, <<"pkg", ".", "js">>)
HiddenDir == join(ProjectRoot, <<".", "hidden">>)
SecretTs == join(HiddenDir, <<"secret", ".", "ts">>)
NotesMd == join(ProjectRoot, <<"notes", ".", "md">>)
LinkTs == join(ProjectRoot, <<"link", ".", "ts">>)

\* The entries in the order readdirSync lists them
Tree ==
    << [path |-> HiddenDir, kind |-> "dir"],
       [path |-> SecretTs, kind |-> "file"],
       [path |-> LinkTs, kind |-> "link"],
       [path |-> MainTs, kind |-> "file"],
       [path |-> NodeModulesDir, kind |-> "dir"],
       [path |-> PkgJs, kind |-> "file"],
       [path |-> NotesMd, kind |-> "file"],
       [path |-> SrcDir, kind |-> "dir"],
       [path |-> AppJs, kind |-> "file"] >>

FilePaths == {Tree[i].path : i \in {j \in 1..Len(Tree) : Tree[j].kind = "file"}}
\* The files the environment writes and deletes
MutableFiles == {MainTs}

Null == [null |-> TRUE]

VARIABLES
    disk,            \* file path -> content key, or Absent
    now,             \* Date.now()
    codeSymbols,     \* the rows of table code_symbols
    fileIndex,       \* the rows of table file_index
    ipPc,            \* indexProject: "idle", "running", "returned", "threw"
    ipFiles,         \* indexProject: the files collectFiles found
    ipPos,           \* indexProject: how many of them the loop has passed
    ipTotal,         \* indexProject: totalSymbols
    ipCalls,         \* history: the indexFile calls of this indexProject, [path, value]
    ipDisk,          \* history: the disk collectFiles walked
    watcher,         \* FileWatcher.watcher: "null" or "open"
    debounceTimers,  \* FileWatcher.debounceTimers: file path -> timer id, or 0
    liveTimers,      \* the scheduled timers: [id, path]
    pendingEvents,   \* events the observation handle has not delivered yet
    run,             \* history: file path -> add/change events since its timer fired or was cleared
    last,            \* history: the last call
    stateNodes,      \* the rows of table state_nodes
    sessionSummaries,\* the rows of table session_summaries
    snapshot,        \* STATE.json: Null, or [activeDecisions, lastUpdated]
    written,         \* history: node id -> the node last given to saveStateNode, or Null
    nlast            \* history: the last call on the node store

storeVars == <<codeSymbols, fileIndex>>
ipVars == <<ipPc, ipFiles, ipPos, ipTotal, ipCalls, ipDisk>>
watchVars == <<watcher, debounceTimers, liveTimers, pendingEvents, run>>
nodeVars == <<stateNodes, sessionSummaries, snapshot, written, nlast>>
vars == <<disk, now, codeSymbols, fileIndex, ipPc, ipFiles, ipPos, ipTotal, ipCalls, ipDisk,
          watcher, debounceTimers, liveTimers, pendingEvents, run, last,
          stateNodes, sessionSummaries, snapshot, written, nlast>>

(***************************************************************************)
(* StateStorage: the code_symbols and file_index statements.               *)
(***************************************************************************)
\* INSERT OR REPLACE INTO code_symbols: id is the primary key
saveCodeSymbol(rows, symbol) ==
    {r \in rows : r.id # symbol.id}
        \cup {[symbol EXCEPT !.signature = IF symbol.signature = <<>> THEN <<"null">>
                                           ELSE symbol.signature]}

\* SELECT * FROM code_symbols WHERE id = ?: the symbol, or null
getCodeSymbol(rows, id) ==
    IF \E r \in rows : r.id = id THEN CHOOSE r \in rows : r.id = id ELSE Null

\* SELECT * FROM code_symbols WHERE file_path = ?
getSymbolsByFile(rows, filePath) == {r \in rows : r.filePath = filePath}

\* A DELETE FROM code_symbols that lost its WHERE clause
deleteSymbolsEverywhere(rows, filePath) == {}

\* DELETE FROM code_symbols WHERE file_path = ?
deleteSymbolsByFile(rows, filePath) == {r \in rows : r.filePath # filePath}

\* An insert that empties file_index first
saveFileIndexAlone(rows, file) == {file}

\* INSERT OR REPLACE INTO file_index: path is the primary key
saveFileIndex(rows, file) == {r \in rows : r.path # file.path} \cup {file}

\* SELECT * FROM file_index WHERE path = ?
getFileIndex(rows, filePath) ==
    IF \E r \in rows : r.path = filePath
    THEN CHOOSE r \in rows : r.path = filePath
    ELSE Null

\* A removal that leaves the file_index row in place
deleteFileIndexNothing(rows, filePath) == rows

\* DELETE FROM file_index WHERE path = ?
deleteFileIndex(rows, filePath) == {r \in rows : r.path # filePath}

(***************************************************************************)
(* StateStorage: the state_nodes and session_summaries statements, and     *)
(* StateFile.  A StateNode object carries every field of the interface; a  *)
(* field the object does not have is Undefined.  A row of state_nodes has  *)
(* the six columns of the schema, and the two staleness columns that the   *)
(* methods verifyFact and getStaleFacts (called by the handlers, absent    *)
(* from the storage code at hand) work on, and the columns tags, priority, *)
(* citations and related_to that the search methods read; INSERT OR        *)
(* REPLACE names six columns and so leaves the others NULL.                *)
(***************************************************************************)
Undefined == [undefined |-> TRUE]
\* An optional field that is present, with value v
Some(v) == [value |-> v]
NodeIds == {"n1", "n2"}

\* JSON.stringify and JSON.parse of a metadata object
stringify(value) == <<"json", value>>
parse(text) == text[2]

\* INSERT OR REPLACE INTO state_nodes (id, type, content, timestamp, supersedes, metadata)
StateNodeRow(node) ==
    [id |-> node.id, type |-> node.type, content |-> node.content,
     timestamp |-> node.timestamp,
     supersedes |-> IF node.supersedes \in {Undefined, Some("")} THEN Null ELSE node.supersedes,
     metadata |-> IF node.metadata = Undefined THEN Null ELSE Some(stringify(node.metadata.value)),
     created_at |-> Null, last_verified |-> Null,
     tags |-> Null, priority |-> Null, citations |-> Null, related_to |-> Null]
\* A write that is refused when it closes a cycle of two supersedes links
saveStateNodeUnlessCycle(rows, node) ==
    IF \E r \in rows : /\ r.id # node.id /\ node.supersedes = Some(r.id)
                       /\ r.supersedes = Some(node.id)
    THEN rows
    ELSE {r \in rows : r.id # node.id} \cup {StateNodeRow(node)}

\* A write that also drops the rows naming the written id in supersedes
saveStateNodeUnlinking(rows, node) ==
    {r \in rows : r.id # node.id /\ r.supersedes # Some(node.id)} \cup {StateNodeRow(node)}

\* INSERT OR REPLACE INTO state_nodes: id is the primary key
saveStateNode(rows, node) == {r \in rows : r.id # node.id} \cup {StateNodeRow(node)}

\* rowToStateNode: the six fields it reads; the object has no other
rowToStateNode(row) ==
    [id |-> row.id, type |-> row.type, content |-> row.content, timestamp |-> row.timestamp,
     supersedes |-> row.supersedes,
     metadata |-> IF row.metadata # Null THEN Some(parse(row.metadata.value)) ELSE Undefined,
     tags |-> Undefined, createdAt |-> Undefined, lastVerified |-> Undefined,
     citations |-> Undefined, relatedTo |-> Undefined, priority |-> Undefined]

\* SELECT * FROM state_nodes WHERE id = ?
\* A lookup that falls back on some stored node
getSomeStateNode(rows, id) ==
    IF rows # {} THEN rowToStateNode(CHOOSE r \in rows : r.id = id \/ \A x \in rows : x.id # id)
    ELSE Null

getStateNode(rows, id) ==
    IF \E r \in rows : r.id = id
    THEN rowToStateNode(CHOOSE r \in rows : r.id = id)
    ELSE Null

\* WHERE type = 'decision' AND id NOT IN (SELECT supersedes ... IS NOT NULL)
ActiveRows(rows) ==
    {r \in rows : /\ r.type = "decision"
                  /\ Some(r.id) \notin {x.supersedes : x \in {y \in rows : y.supersedes # Null}}}

\* The orders in which a SELECT can return the rows selected
Orderings(selected) ==
    {q \in [1..Cardinality(selected) -> selected] :
         \A i, j \in 1..Cardinality(selected) : i # j => q[i] # q[j]}

\* ORDER BY timestamp DESC: rows of equal timestamp come in either order
ByTimestampDesc(q) == \A i, j \in DOMAIN q : i < j => q[i].timestamp >= q[j].timestamp

\* getActiveDecisions(): the results the query can give
getActiveDecisions(rows) ==
    { [i \in DOMAIN q |-> rowToStateNode(q[i])] :
          q \in {o \in Orderings(ActiveRows(rows)) : ByTimestampDesc(o)} }

\* INSERT OR REPLACE INTO session_summaries: id is the primary key
saveSessionSummary(rows, summary) == {r \in rows : r.id # summary.id} \cup {summary}

\* One day, 24 * 60 * 60 * 1000 ms, on a clock that counts seconds
DaySeconds == 24 * 60 * 60

\* lastVerified ?? createdAt ?? timestamp
VerificationClock(row) ==
    IF row.last_verified # Null THEN row.last_verified.value
    ELSE IF row.created_at # Null THEN row.created_at.value
    ELSE row.timestamp

\* A staleness that starts at the threshold itself
IsStaleFromThreshold(row, days, t) == t - VerificationClock(row) >= days * DaySeconds

\* Staleness: now - (lastVerified ?? createdAt ?? timestamp) > thresholdDays
IsStale(row, days, t) == t - VerificationClock(row) > days * DaySeconds

\* getStaleFacts(days): the nodes exceeding the threshold
getStaleFacts(rows, days, t) == {r \in rows : IsStale(r, days, t)}

\* A verification that marks every node
verifyFactEverywhere(rows, id, t) == {[r EXCEPT !.last_verified = Some(t)] : r \in rows}

\* verifyFact(id) sets lastVerified = now
verifyFact(rows, id, t) ==
    {IF r.id = id THEN [r EXCEPT !.last_verified = Some(t)] ELSE r : r \in rows}

\* verifyFact(id) returns whether the id existed
verifyFactResult(rows, id) == \E r \in rows : r.id = id

\* The labels of a tag list
TagSet(tags) == {tags[i] : i \in DOMAIN tags}

\* priority: integer 1..5, default 3
RowPriority(row) == IF row.priority = Null THEN 3 ELSE row.priority.value

\* The rows a search with these options matches: kind fact or decision, any
\* of the tags when tags are given, at least the minimum priority when one is
\* given, and not stale unless stale nodes are asked for
SearchMatches(rows, options, t) ==
    {r \in rows :
        /\ r.type \in {"fact", "decision"}
        /\ (options.tags # Undefined /\ options.tags.value # <<>>)
               => r.tags # Null /\ TagSet(r.tags.value) \cap TagSet(options.tags.value) # {}
        /\ options.minPriority # Undefined => RowPriority(r) >= options.minPriority.value
        /\ options.includeStale # Some(TRUE) => ~IsStale(r, 30, t)}

\* searchByTags(options): the results the search can give, limit of them at
\* most
searchByTags(rows, options, t) ==
    {result \in SUBSET SearchMatches(rows, options, t) :
        Cardinality(result) =
            IF options.limit = Undefined THEN Cardinality(SearchMatches(rows, options, t))
            ELSE Min(options.limit.value, Cardinality(SearchMatches(rows, options, t)))}

\* The path portion of a citation "<path>[:<line>]": the text before the
\* line suffix
PathPortion(citation) ==
    IF Len(citation) >= 2 /\ citation[Len(citation) - 1] = ":"
    THEN SubSeq(citation, 1, Len(citation) - 2)
    ELSE citation

\* text contains fragment as a substring
Contains(text, fragment) ==
    \E i \in 0..(Len(text) - Len(fragment)) : SubSeq(text, i + 1, i + Len(fragment)) = fragment

\* getFactsByCitation(pathFragment): the nodes with a citation whose path
\* portion contains the fragment
getFactsByCitation(rows, pathFragment) ==
    {r \in rows :
        /\ r.citations # Null
        /\ \E i \in DOMAIN r.citations.value :
               Contains(PathPortion(r.citations.value[i]), pathFragment)}

\* getRelatedFacts(id): the nodes that the relatedTo list of node id names
getRelatedFacts(rows, id) ==
    {r \in rows :
        \E from \in rows : /\ from.id = id
                            /\ from.related_to # Null
                            /\ r.id \in TagSet(from.related_to.value)}

\* A bootstrap set that takes every node
getEveryNode(rows) == rows

\* getBootstrapData(): all fact and decision nodes, never a summary
getBootstrapData(rows) == {r \in rows : r.type \in {"fact", "decision"}}

\* Statistics that count every node as a decision
getStatsOfAllNodes(files, symbols, rows) ==
    [fileCount |-> Cardinality(files), symbolCount |-> Cardinality(symbols),
     decisionCount |-> Cardinality(rows),
     factCount |-> Cardinality({r \in rows : r.type = "fact"})]

\* getStats(): SELECT COUNT(*) of file_index, of code_symbols, and of
\* state_nodes WHERE type = 'decision' and WHERE type = 'fact'
getStats(files, symbols, rows) ==
    [fileCount |-> Cardinality(files), symbolCount |-> Cardinality(symbols),
     decisionCount |-> Cardinality({r \in rows : r.type = "decision"}),
     factCount |-> Cardinality({r \in rows : r.type = "fact"})]

\* StateFile.updateDecisions -> update: the snapshot written to STATE.json
updateDecisions(decisions, t) == [activeDecisions |-> decisions, lastUpdated |-> t]

NoNodeCall ==
    [op |-> "none", id |-> "none", priority |-> Undefined, isError |-> FALSE, result |-> Null,
     existed |-> FALSE, preCount |-> 0, changed |-> FALSE, days |-> Undefined,
     options |-> Undefined]

(***************************************************************************)
(* ASTIndexer.indexFile and removeFile.  Each runs to completion without   *)
(* an await.  failAt names the storage statement that throws (0: none);    *)
(* the statements before it have taken effect.                             *)
(***************************************************************************)
\* fs.readFileSync(filePath, "utf-8") of a file that is on disk
readFileSync(key) == Text[key]

\* The md5 digest, taken to be free of collisions: it names the content
computeHash(content) == CHOOSE k \in AllKeys : Text[k] = content

\* this.extractSymbols(content, filePath, language) for every file and content
Extracted ==
    [f \in FilePaths |->
        [k \in AllKeys |-> extractSymbols(readFileSync(k), f, LanguageOf(f))]]

RECURSIVE SaveFirst(_, _, _)
\* The rows after saveCodeSymbol on the first n of symbols
SaveFirst(rows, symbols, n) ==
    IF n = 0 THEN rows
    ELSE saveCodeSymbol(SaveFirst(rows, symbols, n - 1), symbols[n])

SymbolIds(symbols) == [i \in 1..Len(symbols) |-> symbols[i].id]

\* existingIndex && existingIndex.hash === hash
HashUnchanged(existingIndex, hash) == existingIndex # Null /\ existingIndex.hash = hash

\* A skip that stamps the FileIndex again
SkipTouching(rows, idx, existingIndex, t) ==
    [codeSymbols |-> rows, fileIndex |-> (idx \ {existingIndex})
                                          \cup {[existingIndex EXCEPT !.lastIndexed = t]},
     outcome |-> "returned", value |-> Len(existingIndex.symbols), branch |-> "skip"]

\* The skip: return existingIndex.symbols.length, the store untouched
SkipUnchanged(rows, idx, existingIndex, t) ==
    [codeSymbols |-> rows, fileIndex |-> idx, outcome |-> "returned",
     value |-> Len(existingIndex.symbols), branch |-> "skip"]

NewFileIndex(relativePath, hash, t, symbolIds) ==
    [path |-> relativePath, hash |-> hash, lastIndexed |-> t, symbols |-> symbolIds]

Outcome(rows, idx, outcome, value, branch) ==
    [codeSymbols |-> rows, fileIndex |-> idx, outcome |-> outcome, value |-> value,
     branch |-> branch]

\* indexFile from the lookup of the prior FileIndex on
IndexContent(relativePath, hash, symbols, existingIndex, rows, idx, t, failAt) ==
    IF failAt = 1 THEN Outcome(rows, idx, "threw", 0, "storeFailure")
    ELSE IF HashUnchanged(existingIndex, hash)
         THEN SkipUnchanged(rows, idx, existingIndex, t)
    ELSE IF failAt = 2 THEN Outcome(rows, idx, "threw", 0, "storeFailure")
    ELSE IF failAt \in 3..(3 + Len(symbols))
         THEN Outcome(SaveFirst(deleteSymbolsByFile(rows, relativePath), symbols,
                                Min(failAt - 3, Len(symbols))),
                      idx, "threw", 0, "storeFailure")
    ELSE Outcome(SaveFirst(deleteSymbolsByFile(rows, relativePath), symbols, Len(symbols)),
                 saveFileIndex(idx, NewFileIndex(relativePath, hash, t, SymbolIds(symbols))),
                 "returned", Len(symbols), "indexed")

indexFile(filePath, key, rows, idx, t, failAt) ==
    IF LanguageOf(filePath) = NoLanguage THEN Outcome(rows, idx, "returned", 0, "unsupported")
    ELSE IF key = Absent THEN Outcome(rows, idx, "threw", 0, "readFailure")
    ELSE IndexContent(relative(filePath), computeHash(readFileSync(key)),
                      Extracted[filePath][key],
                      getFileIndex(idx, relative(filePath)), rows, idx, t, failAt)

removeFile(filePath, rows, idx, failAt) ==
    LET relativePath == relative(filePath)
    IN  IF failAt = 1 THEN Outcome(rows, idx, "threw", 0, "storeFailure")
        ELSE IF failAt = 2
             THEN Outcome(deleteSymbolsByFile(rows, relativePath), idx, "threw", 0,
                          "storeFailure")
        ELSE Outcome(deleteSymbolsByFile(rows, relativePath),
                     deleteFileIndex(idx, relativePath), "returned", 0, "removed")

(***************************************************************************)
(* ASTIndexer.collectFiles.                                                *)
(***************************************************************************)
startsWithDot(name) == name[1] = "."
parent(path) == SubSeq(path, 1, Len(path) - 1)
Exists(entry, d) == entry.kind # "file" \/ d[entry.path] # Absent

\* fs.readdirSync(dir, { withFileTypes: true })
readdirSync(dir, d) == SelectSeq(Tree, LAMBDA e : parent(e.path) = dir /\ Exists(e, d))

\* A walk that enters dot-prefixed entries
SkippedListedOnly(name) == name \in IGNORE_DIRS \/ name \in IGNORE_FILES

\* The three `continue` tests on an entry name
Skipped(name) == startsWithDot(name) \/ name \in IGNORE_DIRS \/ name \in IGNORE_FILES

RECURSIVE collectFiles(_, _)
RECURSIVE CollectEntries(_, _, _)
CollectEntries(entries, i, d) ==
    IF i > Len(entries) THEN <<>>
    ELSE LET entry == entries[i]
             name == basename(entry.path)
             found == IF Skipped(name) THEN <<>>
                      ELSE IF entry.kind = "dir" THEN collectFiles(entry.path, d)
                      ELSE IF entry.kind = "file"
                              /\ SUPPORTED_EXTENSIONS(extname(name)) # NoLanguage
                           THEN <<entry.path>>
                           ELSE <<>>
         IN  found \o CollectEntries(entries, i + 1, d)
collectFiles(dir, d) == CollectEntries(readdirSync(dir, d), 1, d)

(***************************************************************************)
(* The state machine.                                                      *)
(***************************************************************************)
NoCall ==
    [op |-> "none", by |-> "none", path |-> <<>>, outcome |-> "none", value |-> 0,
     branch |-> "none", content |-> Absent, preIndex |-> Null, preRows |-> 0,
     changed |-> FALSE,
     open |-> FALSE, hadTimer |-> FALSE, burst |-> 0, escaped |-> FALSE]

\* The call sites that discard a failed call: the timer callback of the
\* watcher ends indexFile(filePath) with .catch(() => {})
Catches(op, by) == by = "watcher" /\ op = "indexFile"

\* The record of an indexer call made by `by` on path f, with result res
Called(op, by, f, res, hadTimer) ==
    [NoCall EXCEPT !.op = op, !.by = by, !.path = f, !.outcome = res.outcome,
                   !.value = res.value, !.branch = res.branch, !.content = disk[f],
                   !.preIndex = getFileIndex(fileIndex, relative(f)),
                   !.preRows = Cardinality(getSymbolsByFile(codeSymbols, relative(f))),
                   !.changed = (res.codeSymbols # codeSymbols \/ res.fileIndex # fileIndex),
                   !.open = (watcher = "open"), !.hadTimer = hadTimer, !.burst = run[f],
                   !.escaped = (res.outcome = "threw" /\ ~Catches(op, by))]

\* The store and the history after an indexer call with result res
Applied(op, by, f, res, hadTimer) ==
    /\ codeSymbols' = res.codeSymbols
    /\ fileIndex' = res.fileIndex
    /\ last' = Called(op, by, f, res, hadTimer)

Init ==
    /\ disk = [f \in FilePaths |-> "v1"]
    /\ now = 0
    /\ codeSymbols = {}
    /\ fileIndex = {}
    /\ ipPc = "idle"
    /\ ipFiles = <<>>
    /\ ipPos = 0
    /\ ipTotal = 0
    /\ ipCalls = <<>>
    /\ ipDisk = [f \in FilePaths |-> "v1"]
    /\ watcher = "null"
    /\ debounceTimers = [f \in FilePaths |-> 0]
    /\ liveTimers = {}
    /\ pendingEvents = <<>>
    /\ run = [f \in FilePaths |-> 0]
    /\ last = NoCall
    /\ stateNodes = {}
    /\ sessionSummaries = {}
    /\ snapshot = Null
    /\ written = [id \in NodeIds |-> Null]
    /\ nlast = NoNodeCall

\* The glob list chokidar is given as `ignored`
WatcherIgnoredDirs ==
    { <<"node_modules">>, <<".", "git">>, <<"dist">>, <<"build">>,
      <<".", "context-forge">>, <<"coverage">> }
WatcherIgnored(path) ==
    \E i \in 1..(Len(relative(path)) - 1) : relative(path)[i] \in WatcherIgnoredDirs

\* The observation handle reports a change of the tree while it is open
Reported(kind, f) ==
    IF watcher = "open" /\ ~WatcherIgnored(f)
    THEN Append(pendingEvents, [kind |-> kind, path |-> f])
    ELSE pendingEvents

\* Environment: a file is created or overwritten
WriteFile(f, c) ==
    /\ disk[f] # c
    /\ watcher = "open" => Len(pendingEvents) < MaxEvents
    /\ disk' = [disk EXCEPT ![f] = c]
    /\ pendingEvents' = Reported(IF disk[f] = Absent THEN "add" ELSE "change", f)
    /\ UNCHANGED <<now, storeVars, ipVars, watcher, debounceTimers, liveTimers, run, last, nodeVars>>

\* Environment: a file is deleted
DeleteFile(f) ==
    /\ disk[f] # Absent
    /\ watcher = "open" => Len(pendingEvents) < MaxEvents
    /\ disk' = [disk EXCEPT ![f] = Absent]
    /\ pendingEvents' = Reported("unlink", f)
    /\ UNCHANGED <<now, storeVars, ipVars, watcher, debounceTimers, liveTimers, run, last, nodeVars>>

\* Environment: the clock advances
Tick ==
    /\ now < MaxNow
    /\ now' = now + 1
    /\ UNCHANGED <<disk, storeVars, ipVars, watchVars, last, nodeVars>>

\* A direct call of indexer.indexFile(f)
IndexFileCall(f, failAt) ==
    /\ Applied("indexFile", "direct", f,
               indexFile(f, disk[f], codeSymbols, fileIndex, now, failAt), FALSE)
    /\ UNCHANGED <<disk, now, ipVars, watchVars, nodeVars>>

\* A direct call of indexer.removeFile(f)
RemoveFileCall(f, failAt) ==
    /\ Applied("removeFile", "direct", f, removeFile(f, codeSymbols, fileIndex, failAt), FALSE)
    /\ UNCHANGED <<disk, now, ipVars, watchVars, nodeVars>>

\* indexProject(): collectFiles, then the loop starts
IndexProjectStart ==
    /\ ipPc # "running"
    /\ ipPc' = "running"
    /\ ipFiles' = collectFiles(ProjectRoot, disk)
    /\ ipPos' = 0
    /\ ipTotal' = 0
    /\ ipCalls' = <<>>
    /\ ipDisk' = disk
    /\ last' = [NoCall EXCEPT !.op = "collectFiles", !.by = "project"]
    /\ UNCHANGED <<disk, now, storeVars, watchVars, nodeVars>>

\* indexProject(): one turn of the loop; a rejected indexFile ends the call
IndexProjectStep(failAt) ==
    /\ ipPc = "running"
    /\ ipPos < Len(ipFiles)
    /\ Applied("indexFile", "project", ipFiles[ipPos + 1],
               indexFile(ipFiles[ipPos + 1], disk[ipFiles[ipPos + 1]], codeSymbols, fileIndex,
                         now, failAt), FALSE)
    /\ ipCalls' = Append(ipCalls, [path |-> ipFiles[ipPos + 1], value |-> last'.value])
    /\ ipPc' = IF last'.outcome = "returned" THEN "running" ELSE "threw"
    /\ ipPos' = IF last'.outcome = "returned" THEN ipPos + 1 ELSE ipPos
    /\ ipTotal' = ipTotal + last'.value
    /\ UNCHANGED <<disk, now, ipFiles, ipDisk, watchVars, nodeVars>>

\* indexProject(): return { indexed: files.length, symbols: totalSymbols }
IndexProjectReturn ==
    /\ ipPc = "running"
    /\ ipPos = Len(ipFiles)
    /\ ipPc' = "returned"
    /\ last' = [NoCall EXCEPT !.op = "indexProject", !.by = "project",
                              !.outcome = "returned"]
    /\ UNCHANGED <<disk, now, storeVars, ipFiles, ipPos, ipTotal, ipCalls, ipDisk, watchVars, nodeVars>>

\* What indexProject() returns: { indexed: files.length, symbols: totalSymbols }
IndexProjectResult(files, totalSymbols) == [indexed |-> Len(files), symbols |-> totalSymbols]

\* The storage statements a call can fail at, and the paths it is called with
MaxFailStep == 4
FailPoints == 0..MaxFailStep
CallPaths == MutableFiles \cup {NotesMd}

\* Direct calls of the indexer while the tree changes
Next ==
    \/ \E f \in MutableFiles, c \in ContentKeys : WriteFile(f, c)
    \/ \E f \in MutableFiles : DeleteFile(f)
    \/ Tick
    \/ \E f \in CallPaths, failAt \in FailPoints : IndexFileCall(f, failAt)
    \/ \E f \in CallPaths, failAt \in FailPoints : RemoveFileCall(f, failAt)

Spec == Init /\ [][Next]_vars

\* indexProject() while the tree changes
ProjectNext ==
    \/ \E f \in MutableFiles, c \in ContentKeys : WriteFile(f, c)
    \/ \E f \in MutableFiles : DeleteFile(f)
    \/ Tick
    \/ IndexProjectStart
    \/ \E failAt \in FailPoints : IndexProjectStep(failAt)
    \/ IndexProjectReturn

ProjectSpec == Init /\ [][ProjectNext]_vars

\* Direct calls of the indexer in which no storage statement throws
FaultFreeNext ==
    \/ \E f \in MutableFiles, c \in AllKeys : WriteFile(f, c)
    \/ \E f \in MutableFiles : DeleteFile(f)
    \/ Tick
    \/ \E f \in CallPaths : IndexFileCall(f, 0)
    \/ \E f \in CallPaths : RemoveFileCall(f, 0)

FaultFreeSpec == Init /\ [][FaultFreeNext]_vars

\* Direct calls of the indexer on a file whose content has import lines
ImportContents == {"v1"} \cup ImportKeys
ImportNext ==
    \/ \E f \in MutableFiles, c \in ImportContents : WriteFile(f, c)
    \/ \E f \in MutableFiles : DeleteFile(f)
    \/ Tick
    \/ \E f \in MutableFiles, failAt \in FailPoints : IndexFileCall(f, failAt)
    \/ \E f \in MutableFiles : RemoveFileCall(f, 0)

ImportSpec == Init /\ [][ImportNext]_vars
(***************************************************************************)
(* FileWatcher.                                                            *)
(***************************************************************************)
WATCHER_EXTENSIONS == {Ext("js"), Ext("jsx"), Ext("ts"), Ext("tsx"), Ext("py")}
\* SUPPORTED_EXTENSIONS.includes(path.extname(filePath))
Watched(filePath) == extname(basename(filePath)) \in WATCHER_EXTENSIONS

TimerIds == {t.id : t \in liveTimers} \cup {debounceTimers[f] : f \in FilePaths}
\* setTimeout: a timer that is none of the known ones
FreshTimer == CHOOSE i \in 1..(Cardinality(TimerIds) + 1) : i \notin TimerIds

\* clearTimeout(existing), existing = this.debounceTimers.get(filePath)
clearTimeout(timers, existing) == {t \in timers : t.id # existing}

\* A delete that leaves the entry in the map
deleteTimerKeeping(map, filePath) == map

\* this.debounceTimers.delete(filePath)
deleteTimer(map, filePath) == [map EXCEPT ![filePath] = 0]

\* Handlers and a stop() that clear no timer
AfterResetStacking(timers, existing) == timers
AfterRemoveKeeping(timers, existing) == timers
AfterStopKeeping(timers, map) == timers

\* The timers left scheduled when handleFileChange has cleared the pending one
AfterReset(timers, existing) == IF existing # 0 THEN clearTimeout(timers, existing) ELSE timers

\* The timers left scheduled when handleFileRemove has cleared the pending one
AfterRemove(timers, existing) == IF existing # 0 THEN clearTimeout(timers, existing) ELSE timers

\* The timers left scheduled by the loop of stop()
AfterStop(timers, map) == {t \in timers : \A f \in FilePaths : map[f] # t.id}

\* watcher.start()
Start ==
    /\ watcher = "null"
    /\ watcher' = "open"
    /\ pendingEvents' = <<>>
    /\ last' = [NoCall EXCEPT !.op = "start", !.by = "watcher"]
    /\ UNCHANGED <<disk, now, storeVars, ipVars, debounceTimers, liveTimers, run, nodeVars>>

\* watcher.stop()
Stop ==
    /\ watcher' = "null"
    /\ liveTimers' = AfterStop(liveTimers, debounceTimers)
    /\ debounceTimers' = [f \in FilePaths |-> 0]
    /\ run' = [f \in FilePaths |-> 0]
    /\ last' = [NoCall EXCEPT !.op = "stop", !.by = "watcher", !.open = (watcher = "open"),
                              !.hadTimer = (liveTimers # {})]
    /\ UNCHANGED <<disk, now, storeVars, ipVars, pendingEvents, nodeVars>>

\* An add or change event reaches handleFileChange
HandleFileChange ==
    /\ watcher = "open"
    /\ pendingEvents # <<>>
    /\ Head(pendingEvents).kind \in {"add", "change"}
    /\ LET f == Head(pendingEvents).path
           existing == debounceTimers[f]
           timer == FreshTimer
       IN  /\ run[f] < MaxBurst
           /\ pendingEvents' = Tail(pendingEvents)
           /\ IF ~Watched(f)
              THEN UNCHANGED <<debounceTimers, liveTimers, run>>
              ELSE /\ liveTimers' = AfterReset(liveTimers, existing)
                                        \cup {[id |-> timer, path |-> f]}
                   /\ debounceTimers' = [debounceTimers EXCEPT ![f] = timer]
                   /\ run' = [run EXCEPT ![f] = @ + 1]
           /\ last' = [NoCall EXCEPT !.op = "change", !.by = "watcher", !.path = f,
                                     !.open = TRUE, !.hadTimer = (existing # 0),
                                     !.branch = IF Watched(f) THEN "scheduled"
                                                ELSE "unsupported"]
    /\ UNCHANGED <<disk, now, storeVars, ipVars, watcher, nodeVars>>

\* An unlink event reaches handleFileRemove
HandleFileRemove(failAt) ==
    /\ watcher = "open"
    /\ pendingEvents # <<>>
    /\ Head(pendingEvents).kind = "unlink"
    /\ LET f == Head(pendingEvents).path
           existing == debounceTimers[f]
       IN  /\ pendingEvents' = Tail(pendingEvents)
           /\ IF ~Watched(f)
              THEN /\ UNCHANGED <<debounceTimers, liveTimers, run, storeVars>>
                   /\ last' = [NoCall EXCEPT !.op = "unlink", !.by = "watcher", !.path = f,
                                             !.open = TRUE, !.branch = "unsupported"]
              ELSE /\ liveTimers' = AfterRemove(liveTimers, existing)
                   /\ debounceTimers' = deleteTimer(debounceTimers, f)
                   /\ run' = [run EXCEPT ![f] = 0]
                   /\ Applied("removeFile", "watcher", f,
                              removeFile(f, codeSymbols, fileIndex, failAt), existing # 0)
    /\ UNCHANGED <<disk, now, ipVars, watcher, nodeVars>>

\* The observation handle is closed: the event reaches no listener
DropEvent ==
    /\ watcher = "null"
    /\ pendingEvents # <<>>
    /\ pendingEvents' = Tail(pendingEvents)
    /\ UNCHANGED <<disk, now, storeVars, ipVars, watcher, debounceTimers, liveTimers, run, last, nodeVars>>

\* A scheduled timer fires: the callback of handleFileChange runs
TimerFire(t, failAt) ==
    /\ t \in liveTimers
    /\ liveTimers' = liveTimers \ {t}
    /\ debounceTimers' = deleteTimer(debounceTimers, t.path)
    /\ run' = [run EXCEPT ![t.path] = 0]
    /\ Applied("indexFile", "watcher", t.path,
               indexFile(t.path, disk[t.path], codeSymbols, fileIndex, now, failAt), TRUE)
    /\ UNCHANGED <<disk, now, ipVars, watcher, pendingEvents, nodeVars>>

\* The files whose changes the watcher model follows, and what is written
WatchedFiles == {MainTs, AppJs, NotesMd}
WatchWrites == {<<MainTs, "v1">>, <<MainTs, "v2">>, <<AppJs, "v1">>, <<NotesMd, "v1">>}
WatchFailPoints == {0, 2}

\* The watcher at work while the tree changes
WatchNext ==
    \/ \E w \in WatchWrites : WriteFile(w[1], w[2])
    \/ \E f \in WatchedFiles : DeleteFile(f)
    \/ Start
    \/ Stop
    \/ HandleFileChange
    \/ \E failAt \in WatchFailPoints : HandleFileRemove(failAt)
    \/ DropEvent
    \/ \E t \in liveTimers, failAt \in WatchFailPoints : TimerFire(t, failAt)

WatchSpec == Init /\ [][WatchNext]_vars

\* The watcher left open from its start on, with no storage fault, while one
\* file is written with contents of every kind and deleted
QuiesceContents == {"v1", "v2", "fx"}
QuiesceNext ==
    \/ \E c \in QuiesceContents : WriteFile(MainTs, c)
    \/ DeleteFile(MainTs)
    \/ Start
    \/ HandleFileChange
    \/ HandleFileRemove(0)
    \/ \E t \in liveTimers : TimerFire(t, 0)

QuiesceSpec == Init /\ [][QuiesceNext]_vars

\* The watcher at work on files inside directories that tree walks leave out
HiddenFiles == {SecretTs, PkgJs}
HiddenWatchNext ==
    \/ \E f \in HiddenFiles, c \in {"v1", "v2"} : WriteFile(f, c)
    \/ \E f \in HiddenFiles : DeleteFile(f)
    \/ Tick
    \/ Start
    \/ Stop
    \/ HandleFileChange
    \/ HandleFileRemove(0)
    \/ DropEvent
    \/ \E t \in liveTimers : TimerFire(t, 0)

HiddenWatchSpec == Init /\ [][HiddenWatchNext]_vars

(***************************************************************************)
(* The node store at work: StateStorage called directly, and the handlers  *)
(* memoryStore and commitDecision.                                         *)
(***************************************************************************)
\* The optional fields of the nodes that are saved
Profiles == {"plain", "rich", "low", "high"}
SampleNode(id, type, content, t, supersedes, profile) ==
    [id |-> id, type |-> type, content |-> content, timestamp |-> t, supersedes |-> supersedes,
     metadata |-> IF profile = "rich" THEN Some([source |-> "user"]) ELSE Undefined,
     tags |-> IF profile = "rich" THEN Some(<<"api", "video">>) ELSE Undefined,
     createdAt |-> IF profile = "rich" THEN Some(t) ELSE Undefined,
     lastVerified |-> IF profile = "rich" THEN Some(t) ELSE Undefined,
     citations |-> IF profile = "rich" THEN Some(<<"src/video/api.py:304">>) ELSE Undefined,
     relatedTo |-> IF profile = "rich" THEN Some(<<"n1">>) ELSE Undefined,
     priority |-> CASE profile = "rich" -> Some(4)
                    [] profile = "low" -> Some(1)
                    [] profile = "high" -> Some(5)
                    [] OTHER -> Undefined]

\* The record of a call on the node store
NodeCalled(op, id, priority, isError, result, rows, shot) ==
    [op |-> op, id |-> id, priority |-> priority, isError |-> isError, result |-> result,
     existed |-> (\E r \in stateNodes : r.id = id),
     preCount |-> Cardinality(stateNodes),
     changed |-> (rows # stateNodes \/ shot # snapshot), days |-> Undefined,
     options |-> Undefined]

\* storage.saveStateNode(node)
SaveStateNodeCall(node) ==
    /\ stateNodes' = saveStateNode(stateNodes, node)
    /\ written' = [written EXCEPT ![node.id] = node]
    /\ nlast' = NodeCalled("saveStateNode", node.id, node.priority, FALSE, Null, stateNodes', snapshot)
    /\ UNCHANGED <<disk, now, storeVars, ipVars, watchVars, last, sessionSummaries, snapshot>>

\* An id generator that can give the id of a stored node
StoredIdsToo == NodeIds

\* generateId(): crypto.randomUUID() gives an id no node has
FreshIds == {id \in NodeIds : written[id] = Null}

\* A validation that lets the priority 6 through
PriorityAboveSix(priority) ==
    priority # Undefined /\ (priority.value < 1 \/ priority.value > 6)

\* options.priority !== undefined && (options.priority < 1 || options.priority > 5)
PriorityInvalid(priority) ==
    priority # Undefined /\ (priority.value < 1 \/ priority.value > 5)

\* options.priority ?? 3
validatedPriority(priority) == IF priority = Undefined THEN Some(3) ELSE priority

\* The node memoryStore builds
MemoryStoreNode(id, options, t) ==
    [id |-> id,
     type |-> IF options.type \in {Undefined, Some("")} THEN "fact" ELSE options.type.value,
     content |-> options.content, timestamp |-> t, createdAt |-> Some(t),
     lastVerified |-> Some(t), tags |-> options.tags, citations |-> options.citations,
     relatedTo |-> options.relatedTo, priority |-> validatedPriority(options.priority),
     supersedes |-> options.supersedesId, metadata |-> Undefined]

\* The node commitDecision builds
CommitDecisionNode(id, fact, options, t) ==
    [id |-> id, type |-> "decision", content |-> fact, timestamp |-> t,
     createdAt |-> Some(t), lastVerified |-> Some(t), tags |-> options.tags,
     citations |-> options.citations, relatedTo |-> Undefined,
     priority |-> validatedPriority(options.priority),
     supersedes |-> options.supersedesId, metadata |-> Undefined]

\* A handler that has built its node: saveStateNode, getActiveDecisions,
\* stateFile.updateDecisions, and the result
StoreAndSnapshot(op, node, priority) ==
    /\ stateNodes' = saveStateNode(stateNodes, node)
    /\ written' = [written EXCEPT ![node.id] = node]
    /\ \E decisions \in getActiveDecisions(stateNodes') :
           snapshot' = updateDecisions(decisions, now)
    /\ nlast' = NodeCalled(op, node.id, priority, FALSE, Null, stateNodes', snapshot')

\* A handler that returns { isError: true } on the priority
Rejected(op, priority) ==
    /\ UNCHANGED <<stateNodes, written, snapshot>>
    /\ nlast' = NodeCalled(op, "none", priority, TRUE, Null, stateNodes', snapshot')

\* memoryStore(ctx, options)
MemoryStoreCall(options) ==
    /\ IF PriorityInvalid(options.priority)
       THEN Rejected("memoryStore", options.priority)
       ELSE \E id \in FreshIds :
                StoreAndSnapshot("memoryStore", MemoryStoreNode(id, options, now),
                                 options.priority)
    /\ UNCHANGED <<disk, now, storeVars, ipVars, watchVars, last, sessionSummaries>>

\* commitDecision(ctx, fact, options)
CommitDecisionCall(fact, options) ==
    /\ IF PriorityInvalid(options.priority)
       THEN Rejected("commitDecision", options.priority)
       ELSE \E id \in FreshIds :
                StoreAndSnapshot("commitDecision", CommitDecisionNode(id, fact, options, now),
                                 options.priority)
    /\ UNCHANGED <<disk, now, storeVars, ipVars, watchVars, last, sessionSummaries>>

\* storage.saveSessionSummary(summary)
SaveSessionSummaryCall(summary) ==
    /\ sessionSummaries' = saveSessionSummary(sessionSummaries, summary)
    /\ nlast' = [NoNodeCall EXCEPT !.op = "saveSessionSummary", !.id = summary.id,
                                   !.result = summary,
                                   !.existed = (\E r \in sessionSummaries : r.id = summary.id),
                                   !.preCount = Cardinality(sessionSummaries),
                                   !.changed = (sessionSummaries' # sessionSummaries)]
    /\ UNCHANGED <<disk, now, storeVars, ipVars, watchVars, last, stateNodes, snapshot, written>>

\* The handler verifyFact(ctx, factId): storage.verifyFact(factId)
VerifyFactCall(id) ==
    /\ stateNodes' = verifyFact(stateNodes, id, now)
    /\ nlast' = NodeCalled("verifyFact", id, Undefined, ~verifyFactResult(stateNodes, id),
                           verifyFactResult(stateNodes, id), stateNodes', snapshot)
    /\ UNCHANGED <<disk, now, storeVars, ipVars, watchVars, last, sessionSummaries, snapshot,
                   written>>

\* getStaleFacts(ctx, days = 30)
DefaultStaleDays == 30
\* The handler getStaleFacts(ctx, days): storage.getStaleFacts(days)
GetStaleFactsCall(days) ==
    /\ nlast' = [NodeCalled("getStaleFacts", "none", Undefined, FALSE,
                            getStaleFacts(stateNodes,
                                          IF days = Undefined THEN DefaultStaleDays
                                          ELSE days.value, now),
                            stateNodes, snapshot)
                    EXCEPT !.days = days]
    /\ UNCHANGED <<disk, now, storeVars, ipVars, watchVars, last, stateNodes,
                   sessionSummaries, snapshot, written>>

\* Environment: time passes, a millisecond or some days
Elapse(dt) ==
    /\ dt = 1 => now % DaySeconds < MaxNow
    /\ now + dt <= MaxDays * DaySeconds + MaxNow
    /\ now' = now + dt
    /\ UNCHANGED <<disk, storeVars, ipVars, watchVars, last, nodeVars>>

\* storage.searchByTags(options)
SearchByTagsCall(options) ==
    /\ \E result \in searchByTags(stateNodes, options, now) :
           nlast' = [NodeCalled("searchByTags", "none", Undefined, FALSE, result, stateNodes,
                                snapshot)
                        EXCEPT !.options = options]
    /\ UNCHANGED <<disk, now, storeVars, ipVars, watchVars, last, stateNodes,
                   sessionSummaries, snapshot, written>>

\* memorySearch(ctx, options): includeStale ?? false, then storage.searchByTags
MemorySearchCall(options) ==
    SearchByTagsCall([options EXCEPT !.includeStale =
                          IF options.includeStale = Undefined THEN Some(FALSE)
                          ELSE options.includeStale])

\* storage.getFactsByCitation(pathFragment)
GetFactsByCitationCall(pathFragment) ==
    /\ nlast' = [NodeCalled("getFactsByCitation", "none", Undefined, FALSE,
                            getFactsByCitation(stateNodes, pathFragment), stateNodes, snapshot)
                    EXCEPT !.options = pathFragment]
    /\ UNCHANGED <<disk, now, storeVars, ipVars, watchVars, last, stateNodes,
                   sessionSummaries, snapshot, written>>

\* storage.getRelatedFacts(id)
GetRelatedFactsCall(id) ==
    /\ nlast' = NodeCalled("getRelatedFacts", id, Undefined, FALSE,
                           getRelatedFacts(stateNodes, id), stateNodes, snapshot)
    /\ UNCHANGED <<disk, now, storeVars, ipVars, watchVars, last, stateNodes,
                   sessionSummaries, snapshot, written>>

\* storage.getBootstrapData()
GetBootstrapDataCall ==
    /\ nlast' = NodeCalled("getBootstrapData", "none", Undefined, FALSE,
                           getBootstrapData(stateNodes), stateNodes, snapshot)
    /\ UNCHANGED <<disk, now, storeVars, ipVars, watchVars, last, stateNodes,
                   sessionSummaries, snapshot, written>>

\* Whether a call that only reads has changed a table or the snapshot
StoreTouched ==
    <<codeSymbols', fileIndex', stateNodes', sessionSummaries', snapshot'>>
        # <<codeSymbols, fileIndex, stateNodes, sessionSummaries, snapshot>>

\* storage.getStateNode(id)
GetStateNodeCall(id) ==
    /\ UNCHANGED <<disk, now, storeVars, ipVars, watchVars, last, stateNodes,
                   sessionSummaries, snapshot, written>>
    /\ nlast' = [NodeCalled("getStateNode", id, Undefined, FALSE, getStateNode(stateNodes, id),
                            stateNodes', snapshot')
                    EXCEPT !.changed = StoreTouched]

\* storage.getCodeSymbol(id)
GetCodeSymbolCall(id) ==
    /\ UNCHANGED <<disk, now, storeVars, ipVars, watchVars, last, stateNodes,
                   sessionSummaries, snapshot, written>>
    /\ nlast' = [NoNodeCall EXCEPT !.op = "getCodeSymbol", !.options = id,
                                   !.result = getCodeSymbol(codeSymbols, id),
                                   !.existed = (\E r \in codeSymbols : r.id = id),
                                   !.preCount = Cardinality(codeSymbols),
                                   !.changed = StoreTouched]

\* storage.getStats()
GetStatsCall ==
    /\ UNCHANGED <<disk, now, storeVars, ipVars, watchVars, last, stateNodes,
                   sessionSummaries, snapshot, written>>
    /\ nlast' = [NoNodeCall EXCEPT !.op = "getStats",
                                   !.result = getStats(fileIndex, codeSymbols, stateNodes),
                                   !.changed = StoreTouched]

(***************************************************************************)
(* exportContext.  A path is a sequence of segments, a segment a sequence  *)
(* of pieces of its name; the path string puts "/" before every segment.   *)
(***************************************************************************)
RECURSIVE NormalizeFrom(_, _, _)
\* The segments left when "." is dropped and ".." removes the segment before
NormalizeFrom(segments, i, acc) ==
    IF i > Len(segments) THEN acc
    ELSE IF segments[i] = <<"..">>
         THEN NormalizeFrom(segments, i + 1,
                            IF acc = <<>> THEN <<>> ELSE SubSeq(acc, 1, Len(acc) - 1))
    ELSE IF segments[i] = <<".">> THEN NormalizeFrom(segments, i + 1, acc)
    ELSE NormalizeFrom(segments, i + 1, Append(acc, segments[i]))

\* path.resolve(ctx.projectRoot, options.outputPath)
resolve(root, outputPath) ==
    NormalizeFrom((IF outputPath.absolute THEN <<>> ELSE root) \o outputPath.segments, 1, <<>>)

RECURSIVE SegmentsString(_)
SegmentsString(segments) ==
    IF segments = <<>> THEN <<>>
    ELSE SegmentsString(SubSeq(segments, 1, Len(segments) - 1))
             \o <<"/">> \o segments[Len(segments)]

\* The string of an absolute path
PathString(segments) == IF segments = <<>> THEN <<"/">> ELSE SegmentsString(segments)

\* String.prototype.startsWith
startsWith(text, prefix) ==
    Len(prefix) <= Len(text) /\ SubSeq(text, 1, Len(prefix)) = prefix

ExportDirName == <<".context-forge-export">>

\* The files exportContext writes into outputDir
ExportFiles(includeSymbols, workspaceInfo) ==
    {"decisions.json", "facts.json", "sessions.json", "README.md"}
        \cup (IF workspaceInfo THEN {"workspace.json"} ELSE {})
        \cup (IF includeSymbols THEN {"symbols.json"} ELSE {})

NothingExported == [dir |-> <<>>, files |-> {}]

\* exportContext(ctx, options): what is written, or the error
exportContext(options, workspaceInfo) ==
    IF options.outputPath # Undefined
          /\ ~startsWith(PathString(resolve(ProjectRoot, options.outputPath.value)),
                         PathString(ProjectRoot))
    THEN [isError |-> TRUE, written |-> NothingExported]
    ELSE [isError |-> FALSE,
          written |->
              [dir |-> join(IF options.outputPath # Undefined
                            THEN resolve(ProjectRoot, options.outputPath.value)
                            ELSE ProjectRoot, ExportDirName),
               files |-> ExportFiles(options.includeSymbols, workspaceInfo)]]

\* The handler exportContext called with options; workspaceInfo tells
\* whether the store holds workspace information
ExportContextCall(options, workspaceInfo) ==
    /\ nlast' = [NoNodeCall EXCEPT !.op = "exportContext",
                                   !.isError = exportContext(options, workspaceInfo).isError,
                                   !.result = exportContext(options, workspaceInfo).written,
                                   !.options = options]
    /\ UNCHANGED <<disk, now, storeVars, ipVars, watchVars, last, stateNodes,
                   sessionSummaries, snapshot, written>>

\* The nodes given to saveStateNode: facts, decisions of low and high
\* priority, and decisions that supersede
Contents == {"Use REST API", "Use GraphQL API"}
SavedNodes ==
    { SampleNode(id, "fact", content, now, Undefined, "plain") :
          id \in NodeIds, content \in Contents }
    \cup { SampleNode(id, "fact", "Use REST API", now, Undefined, "rich") : id \in NodeIds }
    \cup { SampleNode(id, "decision", "Use REST API", now, Undefined, profile) :
               id \in NodeIds, profile \in {"low", "high"} }
    \cup { SampleNode(id, "decision", "Use GraphQL API", now, supersedes, "plain") :
               id \in NodeIds, supersedes \in {Undefined} \cup {Some(i) : i \in NodeIds} }

\* The options given to the handlers
Priorities == {Undefined, Some(0), Some(5), Some(6)}
HandlerOptions ==
    { [content |-> "Use REST API", type |-> type, tags |-> Undefined, citations |-> Undefined,
       relatedTo |-> Undefined, priority |-> priority, supersedesId |-> Undefined] :
          type \in {Undefined, Some("decision")}, priority \in Priorities }
DecisionOptions ==
    { [tags |-> Undefined, citations |-> Undefined, priority |-> priority,
       supersedesId |-> supersedesId] :
          priority \in Priorities, supersedesId \in {Undefined, Some("n1")} }

\* The nodes in the store before a handler is called
SeedNodes ==
    { SampleNode("n1", "decision", "Use REST API", now, Undefined, "plain"),
      SampleNode("n2", "fact", "Use REST API", now, Undefined, "plain") }

\* The summaries given to saveSessionSummary
SavedSummaries ==
    { [id |-> "s1", timestamp |-> now, tokenCount |-> tokenCount,
       summary |-> "Chose the API style", keyDecisions |-> keyDecisions] :
          tokenCount \in {5}, keyDecisions \in {<<>>, <<"Use REST API">>} }

\* StateStorage called directly
NodeNext ==
    \/ Tick
    \/ \E node \in SavedNodes : SaveStateNodeCall(node)
    \/ \E summary \in SavedSummaries : SaveSessionSummaryCall(summary)

NodeSpec == Init /\ [][NodeNext]_vars

\* The handlers at work on a store
HandlerNext ==
    \/ Tick
    \/ \E node \in SeedNodes : SaveStateNodeCall(node)
    \/ \E options \in HandlerOptions : MemoryStoreCall(options)
    \/ \E options \in DecisionOptions : CommitDecisionCall("Use GraphQL API", options)
    \/ \E id \in NodeIds : VerifyFactCall(id)

HandlerSpec == Init /\ [][HandlerNext]_vars

\* Facts that age, are verified and are asked for
ElapseSteps == {1, 30 * DaySeconds, 35 * DaySeconds}
StaleDays == {Undefined, Some(30), Some(35)}
StaleNext ==
    \/ \E dt \in ElapseSteps : Elapse(dt)
    \/ \E node \in SeedNodes : SaveStateNodeCall(node)
    \/ \E id \in NodeIds : VerifyFactCall(id)
    \/ \E days \in StaleDays : GetStaleFactsCall(days)

StaleSpec == Init /\ [][StaleNext]_vars

\* The nodes of the search tests, of either id, and a summary
QueryNode(id, type, tags, priority, citations, relatedTo) ==
    [id |-> id, type |-> type, content |-> "Use REST API", timestamp |-> now,
     supersedes |-> Undefined, metadata |-> Undefined, tags |-> tags, createdAt |-> Undefined,
     lastVerified |-> Undefined, citations |-> citations, relatedTo |-> relatedTo,
     priority |-> priority]
\* "src/api.py:10" and "src/utils.py:20"
CiteApi == <<"src", "/", "api", ".", "py", ":", "10">>
CiteUtils == <<"src", "/", "utils", ".", "py", ":", "20">>
QueryNodes ==
    { QueryNode(pair[1], "fact", Some(<<"frontend", "react">>), Some(2), Some(<<CiteApi>>),
                Some(<<pair[2]>>)) : pair \in {p \in NodeIds \X NodeIds : p[1] # p[2]} }
    \cup { QueryNode(id, type, Some(<<"backend", "api">>), Some(4), Some(<<CiteUtils>>),
                     Undefined) :
               id \in NodeIds, type \in {"fact", "decision", "summary"} }

\* The path fragments asked for: "api.py", "utils", "10"
PathFragments == {<<"api", ".", "py">>, <<"utils">>, <<"10">>}

\* The options of the searches
SearchOptions ==
    { [tags |-> tags, limit |-> limit, includeStale |-> includeStale,
       minPriority |-> minPriority] :
          tags \in {Undefined, Some(<<"api">>), Some(<<"api", "react">>)},
          limit \in {Undefined, Some(1)},
          includeStale \in {Undefined, Some(TRUE)},
          minPriority \in {Undefined, Some(3)} }

\* The store written and searched while time passes
QueryNext ==
    \/ Elapse(35 * DaySeconds)
    \/ \E node \in QueryNodes : SaveStateNodeCall(node)
    \/ \E options \in SearchOptions : MemorySearchCall(options)
    \/ \E options \in {o \in SearchOptions : o.includeStale # Undefined} :
           SearchByTagsCall(options)
    \/ \E pathFragment \in PathFragments : GetFactsByCitationCall(pathFragment)
    \/ \E id \in NodeIds : GetRelatedFactsCall(id)
    \/ GetBootstrapDataCall

QuerySpec == Init /\ [][QueryNext]_vars

\* The nodes and the symbol ids of the lookups and of the statistics
CountedNodes ==
    { SampleNode("n1", type, "Use REST API", 0, Undefined, "plain") :
          type \in {"decision", "fact"} }
    \cup { SampleNode("n2", type, "Use REST API", 0, Undefined, "plain") :
               type \in {"fact", "summary"} }
LookupSymbolIds ==
    UNION { {Extracted[MainTs][k][i].id : i \in DOMAIN Extracted[MainTs][k]} :
                k \in ContentKeys }

\* The indexer and the node store written, looked up and counted
StoreNext ==
    \/ \E f \in MutableFiles, c \in {"v1", "fx"} : WriteFile(f, c)
    \/ \E f \in MutableFiles, failAt \in {0, 3} : IndexFileCall(f, failAt)
    \/ \E f \in MutableFiles : RemoveFileCall(f, 0)
    \/ \E node \in CountedNodes : SaveStateNodeCall(node)
    \/ \E id \in NodeIds : GetStateNodeCall(id)
    \/ \E id \in LookupSymbolIds : GetCodeSymbolCall(id)
    \/ GetStatsCall

StoreSpec == Init /\ [][StoreNext]_vars

\* The indexer called on two paths, with and without faults, next to writes
\* of the node store
FramePaths == {MainTs, AppJs}
FrameNodes == {SampleNode("n1", "fact", "Use REST API", 0, Undefined, "plain")}
FrameNext ==
    \/ \E c \in {"v1", "v2"} : WriteFile(MainTs, c)
    \/ \E f \in FramePaths, failAt \in {0, 2, 3} : IndexFileCall(f, failAt)
    \/ \E f \in FramePaths, failAt \in {0, 2} : RemoveFileCall(f, failAt)
    \/ \E node \in FrameNodes : SaveStateNodeCall(node)
    \/ \E summary \in SavedSummaries : SaveSessionSummaryCall(summary)

FrameSpec == Init /\ [][FrameNext]_vars

\* The output paths given to exportContext: none, docs, ./docs/../docs,
\* /proj/docs, ../other, /tmp/out, .. and ../proj-export
RelativePath(segments) == Some([absolute |-> FALSE, segments |-> segments])
AbsolutePath(segments) == Some([absolute |-> TRUE, segments |-> segments])
OutputPaths ==
    { Undefined,
      RelativePath(<< <<"docs">> >>),
      RelativePath(<< <<".">>, <<"docs">>, <<"..">>, <<"docs">> >>),
      AbsolutePath(<< <<"proj">>, <<"docs">> >>),
      RelativePath(<< <<"..">>, <<"other">> >>),
      AbsolutePath(<< <<"tmp">>, <<"out">> >>),
      RelativePath(<< <<"..">> >>),
      RelativePath(<< <<"..">>, <<"proj", "-export">> >>) }
ExportOptions ==
    { [outputPath |-> outputPath, includeSymbols |-> includeSymbols] :
          outputPath \in OutputPaths, includeSymbols \in BOOLEAN }

\* The node store written and exported
ExportNext ==
    \/ \E node \in CountedNodes : SaveStateNodeCall(node)
    \/ \E summary \in SavedSummaries : SaveSessionSummaryCall(summary)
    \/ \E options \in ExportOptions, workspaceInfo \in BOOLEAN :
           ExportContextCall(options, workspaceInfo)

ExportSpec == Init /\ [][ExportNext]_vars

(***************************************************************************)
(* Properties of the indexer (Spec).                                       *)
(***************************************************************************)
Range(seq) == {seq[i] : i \in 1..Len(seq)}

\* The digest of the content the last call found on disk equals the stored one
DigestWasStored ==
    /\ last.content # Absent
    /\ last.preIndex # Null
    /\ last.preIndex.hash = computeHash(Text[last.content])

\* The last call was an indexFile on a supported file in need of indexing
NeededIndexing ==
    /\ last.op = "indexFile"
    /\ LanguageOf(last.path) # NoLanguage
    /\ last.content # Absent
    /\ ~DigestWasStored

\* C1: indexFile on a file whose digest equals the stored digest changes no
\* CodeSymbol row and no FileIndex field (lastIndexed keeps its value), and
\* what it returns is the length of the stored FileIndex.symbols.
SkipIsNoOp ==
    (last.op = "indexFile" /\ DigestWasStored)
        => /\ ~last.changed
           /\ getFileIndex(fileIndex, relative(last.path)) = last.preIndex
           /\ getFileIndex(fileIndex, relative(last.path)).lastIndexed
                  = last.preIndex.lastIndexed
           /\ last.outcome = "returned" => last.value = Len(last.preIndex.symbols)

\* A skip at a later time than the indexing, of a file with two symbols
SkipIsNoOpWitness ==
    /\ last.op = "indexFile"
    /\ DigestWasStored
    /\ last.outcome = "returned"
    /\ last.preIndex.lastIndexed # now
    /\ last.value = 2

\* C2: indexFile on a file with no FileIndex, or with another digest than the
\* stored one, leaves for the path exactly the symbols extracted from the new
\* content, and the FileIndex of the path carries the new digest.
ReindexLeavesExtraction ==
    (NeededIndexing /\ last.outcome = "returned")
        => /\ getSymbolsByFile(codeSymbols, relative(last.path))
                  = Range(Extracted[last.path][last.content])
           /\ getFileIndex(fileIndex, relative(last.path)) # Null
           /\ getFileIndex(fileIndex, relative(last.path)).hash
                  = computeHash(Text[last.content])

\* C3: for every tracked path FileIndex.symbols is exactly the set of ids of
\* the CodeSymbol rows stored with that filePath, also after a step of
\* indexFile or removeFile failed midway.
FileIndexMatchesRows ==
    \A file \in fileIndex :
        Range(file.symbols) = {r.id : r \in getSymbolsByFile(codeSymbols, file.path)}

\* C4: after removeFile(path) returns, no CodeSymbol row has the path as
\* filePath and getFileIndex(path) is null.
RemoveFileForgets ==
    (last.op = "removeFile" /\ last.outcome = "returned")
        => /\ getSymbolsByFile(codeSymbols, relative(last.path)) = {}
           /\ getFileIndex(fileIndex, relative(last.path)) = Null

\* removeFile returned on a path that had symbols and a FileIndex
RemoveFileForgetsWitness ==
    /\ last.op = "removeFile"
    /\ last.outcome = "returned"
    /\ last.preIndex # Null
    /\ last.preRows > 0

\* C5: removeFile on a path with nothing stored raises no error of its own
\* and leaves the whole store unchanged.
RemoveUntrackedIsNoOp ==
    (last.op = "removeFile" /\ last.preIndex = Null /\ last.preRows = 0)
        => /\ ~last.changed
           /\ last.outcome = "threw" => last.branch = "storeFailure"

\* removeFile returned on a path with nothing stored while another is tracked
RemoveUntrackedIsNoOpWitness ==
    /\ last.op = "removeFile"
    /\ last.outcome = "returned"
    /\ last.preIndex = Null
    /\ last.preRows = 0
    /\ codeSymbols # {}
    /\ fileIndex # {}

(***************************************************************************)
(* Properties of indexProject (ProjectSpec).                               *)
(***************************************************************************)
RECURSIVE SumValues(_)
SumValues(calls) == IF calls = <<>> THEN 0 ELSE Head(calls).value + SumValues(Tail(calls))

CalledPaths == {ipCalls[i].path : i \in 1..Len(ipCalls)}

\* The regular files of tree d with a supported extension that are neither
\* ignored or dot-prefixed themselves nor inside such a directory
EligibleFiles(d) ==
    { f \in FilePaths :
        /\ d[f] # Absent
        /\ extname(basename(f)) \in {Ext("js"), Ext("jsx"), Ext("ts"), Ext("tsx"), Ext("py")}
        /\ ~startsWithDot(basename(f))
        /\ basename(f) \notin IGNORE_FILES
        /\ \A i \in 1..(Len(relative(f)) - 1) :
               ~startsWithDot(relative(f)[i]) /\ relative(f)[i] \notin IGNORE_DIRS }

\* C6: when indexFile fails for one file, indexProject() still calls indexFile
\* for every remaining eligible file of the walk.
FailureSparesLaterFiles ==
    ipPc \in {"returned", "threw"} => CalledPaths = EligibleFiles(ipDisk)

\* C7: an indexProject() that returns has called indexFile exactly once for
\* every eligible file of the tree it walked and for no other file; `indexed`
\* is the number of those files and `symbols` the sum of the indexFile results.
ProjectIndexesEligible ==
    ipPc = "returned"
        => /\ CalledPaths = EligibleFiles(ipDisk)
           /\ Len(ipCalls) = Cardinality(CalledPaths)
           /\ IndexProjectResult(ipFiles, ipTotal).indexed = Cardinality(EligibleFiles(ipDisk))
           /\ IndexProjectResult(ipFiles, ipTotal).symbols = SumValues(ipCalls)

\* indexProject() returned on two eligible files with three symbols
ProjectIndexesEligibleWitness ==
    /\ ipPc = "returned"
    /\ Cardinality(EligibleFiles(ipDisk)) = 2
    /\ ipTotal = 3

(***************************************************************************)
(* Properties of the watcher (WatchSpec).                                  *)
(***************************************************************************)
TimersOf(f) == {t \in liveTimers : t.path = f}

\* C8: a run of add/change events on a path, each arriving before the timer
\* of the previous one fired, keeps one pending timer, that of the last event,
\* and ends in one indexFile call when that timer fires.
DebounceCoalesces ==
    /\ \A f \in FilePaths :
           /\ Cardinality(TimersOf(f)) = IF run[f] > 0 THEN 1 ELSE 0
           /\ \A t \in TimersOf(f) : debounceTimers[f] = t.id
    /\ (last.op = "indexFile" /\ last.by = "watcher")
           => /\ last.burst >= 1
              /\ TimersOf(last.path) = {}
              /\ run[last.path] = 0

\* The timer fired after a run of two events
DebounceCoalescesWitness ==
    /\ last.op = "indexFile"
    /\ last.by = "watcher"
    /\ last.burst = 2

\* C9: an unlink event on a supported path calls removeFile in the handler,
\* and no timer pending for the path is left to fire.
UnlinkCancelsTimer ==
    /\ (last.op = "unlink" /\ last.by = "watcher") => ~Watched(last.path)
    /\ (last.op = "removeFile" /\ last.by = "watcher")
           => /\ Watched(last.path)
              /\ TimersOf(last.path) = {}
              /\ debounceTimers[last.path] = 0
              /\ last.outcome = "returned"
                     => getSymbolsByFile(codeSymbols, relative(last.path)) = {}

\* The unlink arrived while a timer was pending for the path
UnlinkCancelsTimerWitness ==
    /\ last.op = "removeFile"
    /\ last.by = "watcher"
    /\ last.hadTimer
    /\ last.outcome = "returned"

\* C10: once stop() has returned no timer of the watcher is left to fire, and
\* every indexFile or removeFile call of the watcher was made while it was open.
StopSilences ==
    /\ watcher = "null" => liveTimers = {}
    /\ (last.by = "watcher" /\ last.op \in {"indexFile", "removeFile", "change", "unlink"})
           => last.open

\* stop() returned with timers pending and events still to be delivered
StopSilencesWitness ==
    /\ last.op = "stop"
    /\ last.hadTimer
    /\ pendingEvents # <<>>
    /\ watcher = "null"

\* C11: a failure of an indexer call the watcher makes on a background event
\* (indexFile at a timer, removeFile at an unlink) never leaves the watcher.
WatcherDiscardsFailures ==
    (last.by = "watcher" /\ last.outcome = "threw") => ~last.escaped

\* C12: no file event on a path that the tree walk of indexProject() skips
\* leads to an indexFile call of the watcher.
WatcherSkipsWhatWalkSkips ==
    (last.op = "indexFile" /\ last.by = "watcher")
        => last.path \in EligibleFiles([f \in FilePaths |-> "v1"])

\* ---------------------------------------------------------------------------
\* Properties of the node store (NodeSpec, HandlerSpec, StaleSpec)
\* ---------------------------------------------------------------------------

\* An optional field that is not set reads as undefined or as null
NotSet(v) == v \in {Undefined, Null}
SameOptional(a, b) == a = b \/ (NotSet(a) /\ NotSet(b))
OptionalFields ==
    {"supersedes", "metadata", "tags", "createdAt", "lastVerified", "citations", "relatedTo",
     "priority"}
SameNode(a, b) ==
    /\ a # Null /\ b # Null
    /\ a.id = b.id /\ a.type = b.type /\ a.content = b.content /\ a.timestamp = b.timestamp
    /\ \A f \in OptionalFields : SameOptional(a[f], b[f])

\* C13: saveStateNode(n) followed by getStateNode(n.id) returns a node whose
\* fields all equal those of n, the optional fields tags, priority, citations,
\* relatedTo, createdAt, lastVerified and supersedes included.
SaveThenGetReturnsNode ==
    nlast.op = "saveStateNode"
        => SameNode(getStateNode(stateNodes, nlast.id), written[nlast.id])

\* Probe: the fields the table has columns for do come back
SaveThenGetReturnsColumns ==
    nlast.op = "saveStateNode"
        => LET got == getStateNode(stateNodes, nlast.id)
               n == written[nlast.id]
           IN /\ got # Null
              /\ got.id = n.id /\ got.type = n.type /\ got.content = n.content
              /\ got.timestamp = n.timestamp
              /\ SameOptional(got.supersedes, n.supersedes)
              /\ SameOptional(got.metadata, n.metadata)

\* The ids of the decisions that no other node names in its supersedes
UnsupersededByOthers(rows) ==
    {r.id : r \in {d \in rows : /\ d.type = "decision"
                                 /\ ~\E o \in rows : o.id # d.id /\ o.supersedes = Some(d.id)}}
\* The ids of the decisions that no node at all names in its supersedes
UnsupersededByAny(rows) ==
    {r.id : r \in {d \in rows : /\ d.type = "decision"
                                 /\ ~\E o \in rows : o.supersedes = Some(d.id)}}
ResultIds(result) == {result[i].id : i \in DOMAIN result}

\* C14: getActiveDecisions() returns exactly the nodes of kind decision whose
\* id is not the supersedes value of any other node, each of them once.
ActiveAreUnsupersededByOthers ==
    \A result \in getActiveDecisions(stateNodes) :
        /\ ResultIds(result) = UnsupersededByOthers(stateNodes)
        /\ Len(result) = Cardinality(UnsupersededByOthers(stateNodes))

\* Probe: the query leaves out the decisions named by any node, themselves included
ActiveAreUnsupersededByAny ==
    \A result \in getActiveDecisions(stateNodes) :
        /\ ResultIds(result) = UnsupersededByAny(stateNodes)
        /\ Len(result) = Cardinality(UnsupersededByAny(stateNodes))

\* Probe: D1 saved, then D2 with supersedes = D1.id: the result is [D2]
SupersededIsLeftOut ==
    (/\ \E d1, d2 \in stateNodes : /\ d1.id = "n1" /\ d2.id = "n2"
                                  /\ d1.type = "decision" /\ d2.type = "decision"
                                  /\ d1.supersedes = Null /\ d2.supersedes = Some("n1"))
        => \A result \in getActiveDecisions(stateNodes) :
               Len(result) = 1 /\ result[1].id = "n2"

\* The priority a node was written with, 3 when it was written with none
PriorityOf(id) ==
    IF written[id] = Null \/ written[id].priority = Undefined THEN 3
    ELSE written[id].priority.value

\* C15: getActiveDecisions() returns its nodes ordered by priority descending,
\* and nodes of equal priority by timestamp descending.
ActiveByPriorityThenTimestamp ==
    \A result \in getActiveDecisions(stateNodes) :
        \A i, j \in DOMAIN result :
            i < j => \/ PriorityOf(result[i].id) > PriorityOf(result[j].id)
                     \/ /\ PriorityOf(result[i].id) = PriorityOf(result[j].id)
                        /\ result[i].timestamp >= result[j].timestamp

\* Probe: the results are ordered by timestamp descending
ActiveByTimestamp ==
    \A result \in getActiveDecisions(stateNodes) :
        \A i, j \in DOMAIN result : i < j => result[i].timestamp >= result[j].timestamp

\* Probe: no node of a result carries a priority
ActiveCarryNoPriority ==
    \A result \in getActiveDecisions(stateNodes) :
        \A i \in DOMAIN result : result[i].priority = Undefined

\* The row r is still there after the step, with its kind, content and
\* timestamp; of its other columns only last_verified can differ, and only
\* when the step was a verifyFact
RowKept(r, rows, op) ==
    \E kept \in rows :
        /\ kept.id = r.id /\ kept.type = r.type /\ kept.content = r.content
        /\ kept.timestamp = r.timestamp
        /\ kept = [r EXCEPT !.last_verified = kept.last_verified]
        /\ op # "verifyFact" => kept = r
HandlerOps == {"memoryStore", "commitDecision", "verifyFact"}

\* C16 as stated: once a node is stored, no later operation of the store or of
\* a handler removes it or changes its kind, content or timestamp; only
\* lastVerified changes, through verifyFact.
StoredNodesNeverChange ==
    [][\A r \in stateNodes : RowKept(r, stateNodes', nlast'.op)]_vars

\* C16 amended: no operation removes a stored node, and no handler operation
\* (memoryStore, commitDecision, verifyFact) changes its kind, content or
\* timestamp; verifyFact changes only its lastVerified. A saveStateNode call
\* with the id of a stored node replaces that node.
HandlersKeepStoredNodes ==
    [][/\ \A r \in stateNodes : \E kept \in stateNodes' : kept.id = r.id
       /\ nlast'.op \in HandlerOps
              => \A r \in stateNodes : RowKept(r, stateNodes', nlast'.op)
       /\ nlast'.op \notin HandlerOps \cup {"saveStateNode"} => stateNodes' = stateNodes]_vars

\* A handler has stored a node next to the nodes that were there
HandlersKeepStoredNodesWitness ==
    /\ nlast.op \in {"memoryStore", "commitDecision"}
    /\ ~nlast.isError
    /\ nlast.preCount >= 1
    /\ Cardinality(stateNodes) = nlast.preCount + 1

\* C17: a write with an id that already exists leaves exactly one record under
\* that id, equal to the newly written record, and the number of records of
\* the family does not change.
WriteReplacesRecord ==
    /\ (nlast.op = "saveStateNode" /\ nlast.existed)
           => /\ Cardinality(stateNodes) = nlast.preCount
              /\ Cardinality({r \in stateNodes : r.id = nlast.id}) = 1
              /\ SameNode(getStateNode(stateNodes, nlast.id), written[nlast.id])
    /\ (nlast.op = "saveSessionSummary" /\ nlast.existed)
           => /\ Cardinality(sessionSummaries) = nlast.preCount
              /\ {r \in sessionSummaries : r.id = nlast.id} = {nlast.result}

\* Probe: the row under the id is the row of the newly written node alone
WriteReplacesRow ==
    /\ (nlast.op = "saveStateNode" /\ nlast.existed)
           => /\ Cardinality(stateNodes) = nlast.preCount
              /\ {r \in stateNodes : r.id = nlast.id} = {StateNodeRow(written[nlast.id])}
    /\ (nlast.op = "saveSessionSummary" /\ nlast.existed)
           => /\ Cardinality(sessionSummaries) = nlast.preCount
              /\ {r \in sessionSummaries : r.id = nlast.id} = {nlast.result}

\* A priority that is given and is not one of 1..5
PriorityOutside(priority) == priority # Undefined /\ priority.value \notin 1..5

\* C18: memoryStore and commitDecision called with a priority outside 1..5
\* return an error result, write no node and leave the store and the snapshot
\* of active decisions as they were; the nodes they do write have a priority
\* in 1..5.
InvalidPriorityIsRejected ==
    nlast.op \in {"memoryStore", "commitDecision"}
        => /\ PriorityOutside(nlast.priority)
                  => nlast.isError /\ ~nlast.changed /\ nlast.id = "none"
           /\ ~nlast.isError
                  => /\ written[nlast.id].priority # Undefined
                     /\ written[nlast.id].priority.value \in 1..5
                     /\ nlast.changed

\* commitDecision was refused for priority 6 on a store that holds nodes and
\* has a snapshot
InvalidPriorityIsRejectedWitness ==
    /\ nlast.op = "commitDecision"
    /\ nlast.priority = Some(6)
    /\ nlast.isError
    /\ stateNodes # {}
    /\ snapshot # Null

\* The time a row was last verified at, or else created at, or else written at
LastCheckedAt(row) ==
    CASE row.last_verified # Null -> row.last_verified.value
      [] row.created_at # Null -> row.created_at.value
      [] OTHER -> row.timestamp

StaleFactsAreStored ==
    nlast.op = "getStaleFacts" => nlast.result \subseteq stateNodes

VerifyFactMarksOneNode ==
    [][(nlast'.op = "verifyFact" /\ now' = now)
          => IF \E r \in stateNodes : r.id = nlast'.id
             THEN /\ nlast'.result = TRUE
                  /\ stateNodes' =
                         {r \in stateNodes : r.id # nlast'.id}
                         \cup {[r EXCEPT !.last_verified = Some(now)] :
                                   r \in {x \in stateNodes : x.id = nlast'.id}}
             ELSE /\ nlast'.result = FALSE
                  /\ stateNodes' = stateNodes]_vars

\* A node written earlier has been verified next to another node
VerifyFactMarksOneNodeWitness ==
    /\ nlast.op = "verifyFact"
    /\ nlast.result = TRUE
    /\ Cardinality(stateNodes) = 2
    /\ \E r \in stateNodes : /\ r.id = nlast.id
                              /\ r.last_verified = Some(now)
                              /\ r.timestamp < now

\* verifyFact was called with an id that has no node, on a store with a node
VerifyFactUnknownReached ==
    /\ nlast.op = "verifyFact"
    /\ nlast.result = FALSE
    /\ stateNodes # {}

\* The ids of the nodes of kind fact or decision, as they were written, that
\* carry at least one of the tags
WrittenWithTag(tags) ==
    {id \in NodeIds : /\ written[id] # Null
                      /\ written[id].type \in {"fact", "decision"}
                      /\ written[id].tags # Undefined
                      /\ TagSet(written[id].tags.value) \cap TagSet(tags) # {}}

\* C21: searchByTags with a non-empty tag set, includeStale true and no other
\* filter returns exactly the nodes of kind fact or decision that carry at
\* least one of the given tags.
SearchByTagsMatchesAny ==
    (/\ nlast.op = "searchByTags"
     /\ nlast.options.tags # Undefined
     /\ nlast.options.includeStale = Some(TRUE)
     /\ nlast.options.limit = Undefined
     /\ nlast.options.minPriority = Undefined)
        => {r.id : r \in nlast.result} = WrittenWithTag(nlast.options.tags.value)

\* Probe: no row has tags
NoRowHasTags == \A r \in stateNodes : r.tags = Null

\* C22: every node returned by searchByTags satisfies all filters that were
\* given: its priority is at least minPriority, it is not stale when
\* includeStale is false, and the result has no more entries than limit.
SearchHonoursFilters ==
    [][(nlast'.op = "searchByTags" /\ now' = now)
          => /\ \A r \in nlast'.result :
                    /\ nlast'.options.minPriority # Undefined
                           => PriorityOf(r.id) >= nlast'.options.minPriority.value
                    /\ nlast'.options.includeStale = Some(FALSE)
                           => now - LastCheckedAt(r) <= 30 * DaySeconds
             /\ nlast'.options.limit # Undefined
                    => Cardinality(nlast'.result) <= nlast'.options.limit.value]_vars

\* Probe: the staleness filter and the limit are honoured
SearchHonoursStalenessAndLimit ==
    [][(nlast'.op = "searchByTags" /\ now' = now)
          => /\ \A r \in nlast'.result :
                    nlast'.options.includeStale = Some(FALSE)
                        => now - LastCheckedAt(r) <= 30 * DaySeconds
             /\ nlast'.options.limit # Undefined
                    => Cardinality(nlast'.result) <= nlast'.options.limit.value]_vars

\* The ids of the nodes, as they were written, with a citation whose path
\* portion contains the fragment
WrittenCiting(pathFragment) ==
    {id \in NodeIds :
        /\ written[id] # Null
        /\ written[id].citations # Undefined
        /\ \E i \in DOMAIN written[id].citations.value :
               LET citation == written[id].citations.value[i]
               IN \E from \in 1..Len(citation), to \in 1..Len(citation) :
                      /\ SubSeq(citation, from, to) = pathFragment
                      /\ \A k \in 1..to : citation[k] # ":"}

\* C23: getFactsByCitation(f) returns exactly the nodes that have at least one
\* citation whose path portion (the text before the ':<line>' suffix)
\* contains f; a fragment found only in the line suffix matches nothing.
CitationLookupMatchesPath ==
    nlast.op = "getFactsByCitation"
        => {r.id : r \in nlast.result} = WrittenCiting(nlast.options)

\* Probe: no row has citations or related ids
NoRowHasCitations == \A r \in stateNodes : r.citations = Null /\ r.related_to = Null

\* The ids that node id, as it was written, names in its relatedTo
WrittenRelated(id) ==
    IF written[id] = Null \/ written[id].relatedTo = Undefined THEN {}
    ELSE TagSet(written[id].relatedTo.value)

\* C24: getRelatedFacts(id) returns exactly the stored nodes whose ids appear
\* in the relatedTo list of node id, and no node merely because it lists id
\* in its own relatedTo.
RelatedFactsFollowTheList ==
    nlast.op = "getRelatedFacts"
        => {r.id : r \in nlast.result}
               = {id \in WrittenRelated(nlast.id) : \E r \in stateNodes : r.id = id}

\* C25: getBootstrapData() returns every stored node of kind fact or decision
\* and no node of kind summary, after any sequence of writes.
BootstrapIsFactsAndDecisions ==
    nlast.op = "getBootstrapData"
        => /\ {r.id : r \in nlast.result}
                  = {id \in NodeIds : /\ written[id] # Null
                                      /\ written[id].type \in {"fact", "decision"}}
           /\ \A r \in nlast.result : r \in stateNodes /\ r.type # "summary"

\* The bootstrap set was taken from a store that holds a summary and a fact
\* or decision
BootstrapIsFactsAndDecisionsWitness ==
    /\ nlast.op = "getBootstrapData"
    /\ Cardinality(nlast.result) = 1
    /\ \E r \in stateNodes : r.type = "summary"

\* C26: getStateNode(id) and getCodeSymbol(id) for an id that has no record
\* return null without raising an error, and leave the store unchanged.
MissingIdGivesNull ==
    (nlast.op \in {"getStateNode", "getCodeSymbol"} /\ ~nlast.existed)
        => nlast.result = Null /\ ~nlast.isError /\ ~nlast.changed

\* getStateNode was called with an id that has no node, on a store that has
\* nodes and symbols
MissingIdGivesNullWitness ==
    /\ nlast.op = "getStateNode"
    /\ ~nlast.existed
    /\ stateNodes # {}
    /\ codeSymbols # {}

\* getCodeSymbol was called with an id that has no symbol, on a store that
\* has symbols
MissingSymbolLookedUp ==
    /\ nlast.op = "getCodeSymbol"
    /\ ~nlast.existed
    /\ codeSymbols # {}

\* Probe: a lookup of an id that has a record returns that record
StoredIdGivesRecord ==
    /\ (nlast.op = "getStateNode" /\ nlast.existed)
           => nlast.result # Null /\ nlast.result.id = nlast.id
    /\ (nlast.op = "getCodeSymbol" /\ nlast.existed)
           => nlast.result # Null /\ nlast.result.id = nlast.options

\* C27: getStats() reports fileCount = number of FileIndex records,
\* symbolCount = number of CodeSymbol rows, decisionCount = number of nodes of
\* kind decision and factCount = number of nodes of kind fact currently stored.
StatsCountTheStore ==
    [][(nlast'.op = "getStats" /\ UNCHANGED <<disk, last, codeSymbols, fileIndex>>)
        => /\ nlast'.result.fileCount = Cardinality({r.path : r \in fileIndex})
           /\ nlast'.result.symbolCount = Cardinality({r.id : r \in codeSymbols})
           /\ nlast'.result.decisionCount
                  = Cardinality({id \in NodeIds : /\ written[id] # Null
                                                  /\ written[id].type = "decision"})
           /\ nlast'.result.factCount
                  = Cardinality({id \in NodeIds : /\ written[id] # Null
                                                  /\ written[id].type = "fact"})
           /\ ~nlast'.changed]_vars

\* getStats() was called on a store with a file, symbols, a fact and a summary
StatsCountTheStoreWitness ==
    /\ nlast.op = "getStats"
    /\ nlast.result.fileCount = 1
    /\ nlast.result.symbolCount >= 1
    /\ nlast.result.decisionCount = 0
    /\ nlast.result.factCount = 1
    /\ Cardinality(stateNodes) = 2

(***************************************************************************)
(* Properties of the extracted dependencies.                               *)
(***************************************************************************)
\* The position of the first occurrence of x in seq
FirstAt(seq, x) == CHOOSE i \in DOMAIN seq : seq[i] = x /\ \A j \in 1..(i - 1) : seq[j] # x

\* list holds every element of seq once, ordered by first occurrence in seq
FirstOccurrences(list, seq) ==
    /\ \A i, j \in DOMAIN list : i # j => list[i] # list[j]
    /\ {list[i] : i \in DOMAIN list} = {seq[i] : i \in DOMAIN seq}
    /\ \A i, j \in DOMAIN list : i < j => FirstAt(seq, list[i]) < FirstAt(seq, list[j])

\* The import targets of the content the last indexFile call read, line by line
TargetsRead == ImportsFrom(Text[last.content], LanguageOf(last.path), 1)

\* C28: every stored CodeSymbol has an empty dependents list, the symbols
\* stored for one file carry one dependencies list, and after indexFile has
\* indexed a file that list is the import targets of the content it read,
\* each once, in order of first occurrence.
DependenciesAreTheImports ==
    /\ \A r \in codeSymbols :
           /\ r.dependents = <<>>
           /\ \A q \in codeSymbols : q.filePath = r.filePath
                                        => q.dependencies = r.dependencies
    /\ (last.op = "indexFile" /\ last.branch = "indexed")
           => \A r \in getSymbolsByFile(codeSymbols, relative(last.path)) :
                  FirstOccurrences(r.dependencies, TargetsRead)

\* indexFile has indexed the content that requires "./b" and then imports
\* "./a" twice: its two symbols carry "./b", "./a"
DependenciesAreTheImportsWitness ==
    /\ last.op = "indexFile" /\ last.branch = "indexed" /\ last.content = "im"
    /\ Len(TargetsRead) = 3
    /\ Cardinality(getSymbolsByFile(codeSymbols, relative(last.path))) = 2
    /\ \A r \in getSymbolsByFile(codeSymbols, relative(last.path)) :
           r.dependencies = << <<"./b">>, <<"./a">> >>

(***************************************************************************)
(* Properties of the symbol ids.                                           *)
(***************************************************************************)
\* The ids of the symbols in the sequence are pairwise distinct
DistinctIds(symbols) ==
    \A i, j \in DOMAIN symbols : i # j => symbols[i].id # symbols[j].id

\* C29: the number returned by an indexFile call that extracts symbols is the
\* number of CodeSymbol rows stored for the path afterwards: the symbols
\* extracted from one file have pairwise distinct ids, also when one line
\* matches several pattern rules.
ReturnedCountIsRowsStored ==
    (last.op = "indexFile" /\ last.branch = "indexed")
        => /\ DistinctIds(Extracted[last.path][last.content])
           /\ last.value = Cardinality(getSymbolsByFile(codeSymbols, relative(last.path)))

\* The same on the contents in which no line matches two rules with one name
ReturnedCountIsRowsStoredElsewhere ==
    (last.op = "indexFile" /\ last.branch = "indexed" /\ last.content # "fx")
        => /\ DistinctIds(Extracted[last.path][last.content])
           /\ last.value = Cardinality(getSymbolsByFile(codeSymbols, relative(last.path)))

(***************************************************************************)
(* Properties of indexProject and the tracked paths.                       *)
(***************************************************************************)
\* The relative paths of the files the walk of the last indexProject found
WalkedPaths == {relative(ipFiles[i]) : i \in DOMAIN ipFiles}

TrackedPaths == {file.path : file \in fileIndex}

IndexProjectReturned == ipPc = "returned" /\ last.op = "indexProject"

\* C30: after indexProject() returns normally the paths with a FileIndex
\* record are the eligible files the walk found: a path whose file has left
\* the tree since it was indexed is no longer tracked and has no symbols.
IndexProjectTracksTheWalk ==
    IndexProjectReturned
        => /\ TrackedPaths = WalkedPaths
           /\ \A r \in codeSymbols : r.filePath \in WalkedPaths

\* After indexProject() returns normally every file the walk found is tracked
IndexProjectTracksEveryFileFound ==
    IndexProjectReturned => WalkedPaths \subseteq TrackedPaths

\* indexProject() has returned from a walk that found a file
IndexProjectTracksEveryFileFoundWitness ==
    IndexProjectReturned /\ WalkedPaths # {}

(***************************************************************************)
(* Properties of the index once the watcher is at rest.                    *)
(***************************************************************************)
\* The index of path f agrees with the disk
AgreesWithDisk(f) ==
    IF disk[f] # Absent
    THEN /\ getFileIndex(fileIndex, relative(f)) # Null
         /\ getFileIndex(fileIndex, relative(f)).hash = computeHash(Text[disk[f]])
         /\ getSymbolsByFile(codeSymbols, relative(f)) = Range(Extracted[f][disk[f]])
    ELSE /\ getFileIndex(fileIndex, relative(f)) = Null
         /\ getSymbolsByFile(codeSymbols, relative(f)) = {}

\* Events on path f have been handled, none is pending and no timer is
\* scheduled: the last thing the watcher did is the indexer call for f
AtRest(f) ==
    /\ watcher = "open" /\ pendingEvents = <<>> /\ liveTimers = {}
    /\ last.by = "watcher" /\ last.op \in {"indexFile", "removeFile"} /\ last.path = f

\* C31: after any sequence of add/change/unlink events on a supported path,
\* once events have ceased and every pending timer has fired without a store
\* fault, the index agrees with the disk: an existing file is tracked with
\* the digest of its content and exactly the symbols extracted from it, a
\* missing file has no FileIndex and no symbols.
IndexAgreesAtRest == AtRest(MainTs) => AgreesWithDisk(MainTs)

\* The same for the contents in which no two extracted symbols share an id
IndexAgreesAtRestOnDistinctIds ==
    (AtRest(MainTs) /\ disk[MainTs] # "fx") => AgreesWithDisk(MainTs)

\* The watcher is at rest after it indexed a rewritten file, and after it
\* removed a deleted one
AtRestAfterIndexing == AtRest(MainTs) /\ last.op = "indexFile" /\ disk[MainTs] = "v2"
AtRestAfterRemoval == AtRest(MainTs) /\ last.op = "removeFile" /\ disk[MainTs] = Absent

(***************************************************************************)
(* Properties of indexFile after a failed indexFile.                       *)
(***************************************************************************)
\* The last call was an indexFile that threw after it had changed the store
FailedMidway == last.op = "indexFile" /\ last.outcome = "threw" /\ last.changed

\* This step is the next indexFile call on the same path, and it returns
NextCallCompletes ==
    /\ last'.op = "indexFile" /\ last'.path = last.path /\ last'.outcome = "returned"

\* After the step the path of the call holds the extraction and the digest
\* of the content the call read
ConsistentAfter ==
    /\ getSymbolsByFile(codeSymbols', relative(last'.path))
           = Range(Extracted[last'.path][last'.content])
    /\ getFileIndex(fileIndex', relative(last'.path)) # Null
    /\ getFileIndex(fileIndex', relative(last'.path)).hash
           = computeHash(Text[last'.content])

\* C32: when an indexFile(p) call has failed after it deleted the old symbols
\* of p, the next indexFile(p) call that completes restores consistency for
\* p whatever the file then contains, the content indexed before the failure
\* included: the symbols of p are the extraction of the current content and
\* the FileIndex digest is its digest.
NextIndexFileRestores ==
    [][(FailedMidway /\ NextCallCompletes) => ConsistentAfter]_vars

\* The same when the next call does not take the unchanged-digest return and
\* the content has distinct ids
NextIndexFileRestoresUnlessSkipped ==
    [][(FailedMidway /\ NextCallCompletes /\ last'.branch = "indexed"
            /\ last'.content # "fx") => ConsistentAfter]_vars

\* The same on the contents with distinct ids, the unchanged-digest return
\* included
NextIndexFileRestoresOnDistinctIds ==
    [][(FailedMidway /\ NextCallCompletes /\ last'.content # "fx") => ConsistentAfter]_vars

(***************************************************************************)
(* Properties of the index after calls without a fault.                    *)
(***************************************************************************)
\* This step is an indexFile call that extracted and stored
IndexedStep == last'.op = "indexFile" /\ last'.branch = "indexed" /\ last' # last

\* After the step every tracked path holds the extraction of the content
\* whose digest its FileIndex carries
TrackedHoldExtraction ==
    \A file \in fileIndex' :
        \E f \in FilePaths :
            /\ relative(f) = file.path
            /\ getSymbolsByFile(codeSymbols', file.path) = Range(Extracted[f][file.hash])

\* C33: after any sequence of indexFile and removeFile calls without a fault,
\* for every tracked path the stored symbols are the extraction of the
\* content read by the last indexFile call on it that did not skip, and the
\* FileIndex digest is the digest of that content, whatever was indexed for
\* the path before.
TrackedPathsHoldLastIndexed ==
    [][(IndexedStep => ConsistentAfter) /\ TrackedHoldExtraction]_vars

\* The same while no tracked content has two symbols with one id
TrackedPathsHoldLastIndexedOnDistinctIds ==
    [][(\A file \in fileIndex' : file.hash # "fx")
          => ((IndexedStep => ConsistentAfter) /\ TrackedHoldExtraction)]_vars

\* A path indexed with one content has been indexed again with another
ReindexedWithOtherContent ==
    /\ last.op = "indexFile" /\ last.branch = "indexed" /\ last.content = "v2"
    /\ last.preIndex # Null /\ last.preIndex.hash = "im"

(***************************************************************************)
(* Properties of what an indexer call leaves alone.                        *)
(***************************************************************************)
\* The rows of every path but p
SymbolsElsewhere(rows, p) == {r \in rows : r.filePath # p}
FileIndexElsewhere(rows, p) == {r \in rows : r.path # p}

\* C34: indexFile(p) and removeFile(p) leave unchanged every CodeSymbol row
\* and FileIndex record of every path other than p, and every StateNode and
\* SessionSummary.
IndexerCallsTouchOnePath ==
    [][(codeSymbols' # codeSymbols \/ fileIndex' # fileIndex)
          => /\ last'.op \in {"indexFile", "removeFile"}
             /\ SymbolsElsewhere(codeSymbols', relative(last'.path))
                    = SymbolsElsewhere(codeSymbols, relative(last'.path))
             /\ FileIndexElsewhere(fileIndex', relative(last'.path))
                    = FileIndexElsewhere(fileIndex, relative(last'.path))
             /\ stateNodes' = stateNodes
             /\ sessionSummaries' = sessionSummaries]_vars

\* An indexer call has changed the store for its path while another path is
\* tracked with its symbols and the node store holds a node and a summary
IndexerCallsTouchOnePathWitness ==
    /\ last.op \in {"indexFile", "removeFile"} /\ last.changed
    /\ last.path = MainTs
    /\ getFileIndex(fileIndex, relative(AppJs)) # Null
    /\ getSymbolsByFile(codeSymbols, relative(AppJs)) # {}
    /\ stateNodes # {} /\ sessionSummaries # {}

(***************************************************************************)
(* Properties of the debounceTimers map.                                   *)
(***************************************************************************)
\* C35: in every reachable watcher state the debounceTimers map holds
\* exactly the scheduled timers that have neither fired nor been cancelled:
\* at most one per path, no entry for a timer that fired or was cleared, and
\* no scheduled timer that is missing from the map.
MapHoldsTheLiveTimers ==
    /\ \A t \in liveTimers : debounceTimers[t.path] = t.id
    /\ \A f \in FilePaths :
           debounceTimers[f] # 0 => [id |-> debounceTimers[f], path |-> f] \in liveTimers
    /\ \A t, u \in liveTimers : t.path = u.path => t = u

\* The timer of one path has fired while the timer of another path is still
\* scheduled
MapHoldsTheLiveTimersWitness ==
    /\ last.op = "indexFile" /\ last.by = "watcher"
    /\ debounceTimers[last.path] = 0
    /\ \E t \in liveTimers : t.path # last.path /\ debounceTimers[t.path] = t.id

(***************************************************************************)
(* Properties of supersession over time.                                   *)
(***************************************************************************)
\* The rows other than d that name d in supersedes
Superseders(rows, d) == {x \in rows : x.id # d /\ x.supersedes = Some(d)}

\* The decisions superseded by another node
SupersededIds(rows) == {r.id : r \in {x \in rows : x.type = "decision"
                                                    /\ Superseders(rows, x.id) # {}}}

\* The ids getActiveDecisions() returns
ActiveIds(rows) == {r.id : r \in ActiveRows(rows)}

OnCycle(a, b) == a.id # b.id /\ a.supersedes = Some(b.id) /\ b.supersedes = Some(a.id)

\* The last saveStateNode stored its node with the supersedes it was given
LastWriteStored ==
    \E r \in stateNodes :
        /\ r.id = nlast.id
        /\ r = StateNodeRow(written[nlast.id])

\* C37: the store never rejects a write because of its supersedes value: a
\* write that closes a supersession cycle is accepted, and afterwards none of
\* the decisions on the cycle is returned by getActiveDecisions().
CyclesAreStoredAndInactive ==
    /\ nlast.op = "saveStateNode" => LastWriteStored
    /\ \A a, b \in stateNodes :
           OnCycle(a, b) => a.id \notin ActiveIds(stateNodes) /\ b.id \notin ActiveIds(stateNodes)

\* The last write closed a cycle of two decisions
CyclesAreStoredAndInactiveWitness ==
    /\ nlast.op = "saveStateNode"
    /\ \E a, b \in stateNodes :
           /\ OnCycle(a, b) /\ a.id = nlast.id
           /\ a.type = "decision" /\ b.type = "decision"
    /\ getActiveDecisions(stateNodes) = {<<>>}

(***************************************************************************)
(* Properties of the block-end scan.                                       *)
(***************************************************************************)
\* The depth counter after the first k tokens of line j, in a scan that
\* starts at line start
DepthAt(lines, start, j, k) ==
    BraceCount(lines, start, j - 1)
      + Cardinality({i \in 1..k : IsPunct(lines[j], i, "{") \/ IsPunct(lines[j], i, ":")})
      - Cardinality({i \in 1..k : IsPunct(lines[j], i, "}")})

\* The counter was strictly positive somewhere in the lines start..i
WasPositive(lines, start, i) ==
    \E j \in start..i : \E k \in 1..Len(lines[j]) : DepthAt(lines, start, j, k) > 0

\* The lines after which the counter is zero and has been positive
ClosedAt(lines, start) ==
    {i \in start..Len(lines) :
        BraceCount(lines, start, i) = 0 /\ WasPositive(lines, start, i)}

\* The lines after which the counter is zero and an opening character was met
ClosedAfterOpener(lines, start) ==
    {i \in start..Len(lines) :
        BraceCount(lines, start, i) = 0 /\ \E j \in start..i : Opens(lines[j]) > 0}

\* The symbols the last indexFile call stored, and the lines it read
LastIndexed ==
    IF last.op = "indexFile" /\ last.branch = "indexed"
    THEN getSymbolsByFile(codeSymbols, relative(last.path))
    ELSE {}

\* C38: the block-end scan returns line L as endLine only if the depth
\* counter is zero after the lines from the match line through L and was
\* strictly positive earlier in the scan; when no such line exists it returns
\* min(match index + 10, line count). Every extracted symbol has
\* startLine <= endLine <= number of lines of the file.
EndLineClosesTheBlock ==
    \A r \in LastIndexed :
        /\ r.startLine <= r.endLine /\ r.endLine <= Len(Text[last.content])
        /\ IF ClosedAt(Text[last.content], r.startLine) # {}
           THEN r.endLine \in ClosedAt(Text[last.content], r.startLine)
           ELSE r.endLine = Min(r.startLine - 1 + 10, Len(Text[last.content]))

\* The same with "an opening character was met" for "was strictly positive",
\* the first such line being the one returned
EndLineFollowsFirstOpener ==
    \A r \in LastIndexed :
        /\ r.startLine <= r.endLine /\ r.endLine <= Len(Text[last.content])
        /\ IF ClosedAfterOpener(Text[last.content], r.startLine) # {}
           THEN /\ r.endLine \in ClosedAfterOpener(Text[last.content], r.startLine)
                /\ \A i \in ClosedAfterOpener(Text[last.content], r.startLine) :
                       r.endLine <= i
           ELSE r.endLine = Min(r.startLine - 1 + 10, Len(Text[last.content]))

(***************************************************************************)
(* Properties of exportContext.                                            *)
(***************************************************************************)
\* The directory lies inside the project root: the root or below it
InsideRoot(dir) ==
    Len(dir) >= Len(ProjectRoot) /\ SubSeq(dir, 1, Len(ProjectRoot)) = ProjectRoot

\* Where the output path of the last exportContext call resolves to
ResolvedOutput ==
    IF nlast.options.outputPath = Undefined THEN ProjectRoot
    ELSE resolve(ProjectRoot, nlast.options.outputPath.value)

\* C39: exportContext writes only into a directory inside the project root:
\* for every output_path that resolves to a location outside the root, a
\* sibling directory whose name starts with the name of the root included,
\* it returns an error and creates or writes nothing.
ExportStaysInsideRoot ==
    nlast.op = "exportContext"
        => /\ ~InsideRoot(ResolvedOutput)
                  => nlast.isError /\ nlast.result = NothingExported
           /\ nlast.result # NothingExported => InsideRoot(nlast.result.dir)

\* The same for the output paths whose string does not start with the string
\* of the root
ExportRejectsOtherPrefixes ==
    (nlast.op = "exportContext"
        /\ ~startsWith(PathString(ResolvedOutput), PathString(ProjectRoot)))
        => nlast.isError /\ nlast.result = NothingExported

\* An output path outside the root has been refused, and one inside accepted
ExportRefusedOutside ==
    nlast.op = "exportContext" /\ nlast.isError /\ ~InsideRoot(ResolvedOutput)
ExportWroteInside ==
    /\ nlast.op = "exportContext" /\ ~nlast.isError
    /\ nlast.options.outputPath # Undefined
    /\ nlast.result.dir = << <<"proj">>, <<"docs">>, <<".context-forge-export">> >>
====
